---- MODULE Spec2Model ----
(***************************************************************************)
(* Model of the anacode toolkit aggregation layer                          *)
(* (anacode/agg/aggregation.py).  Tables are sequences of rows, a pandas    *)
(* Series is a sequence of (key, value) entries, strings are sequences of  *)
(* characters so that lower(), capitalize() and the lexicographic order of *)
(* groupby keys are computed and not assumed.                               *)
(***************************************************************************)
EXTENDS Integers, Sequences, FiniteSets, TLC

VARIABLES
    loader,          \* the DatasetLoader instance the caller holds
    concepts_ds,     \* the ConceptsDataset instance under query
    absa_ds,         \* the ABSADataset instance under query
    categories_ds,   \* the CategoriesDataset instance under query
    sentiment_ds,    \* the SentimentDataset instance under query
    call,            \* the last query: method name and arguments
    result,          \* its outcome: raised exception or returned value
    writer,          \* the Writer instance and the directory it writes to
    analyzer,        \* the Analyzer instance, its client and its writer
    request          \* the _analysis call in progress

\* the variables of the api package
api_vars == <<writer, analyzer, request>>

vars == <<loader, concepts_ds, absa_ds, categories_ds, sentiment_ds, call, result,
          writer, analyzer, request>>

----------------------------------------------------------------------------
(* Bounds of the explored inputs *)

MaxRows == 2          \* rows of a concepts table in the frequency queries
MaxCoRows == 3        \* rows of a concepts table in the co-occurrence queries
MaxN == 2             \* the n argument ranges over 0..MaxN
MaxRelEntities == 2   \* rows of a relations_entities table in the rating queries
MaxEntityRows == 2    \* rows of an absa_entities table in the entity queries
MaxLoaderRows == 3    \* rows of a concepts table handed to a DatasetLoader
MaxCategoryRows == 2  \* rows of a categories table

DocIds == {0, 1}
Freqs == {1, 2}

----------------------------------------------------------------------------
(* Strings *)

Str_a == <<"a">>
Str_A == <<"A">>
Str_b == <<"b">>
Str_t == <<"t">>
Str_t_u == <<"t", "_", "u">>
EmptyStr == <<>>
Str_Concept == <<"C", "o", "n", "c", "e", "p", "t">>
Str_Entity == <<"E", "n", "t", "i", "t", "y">>

ConceptNames == {Str_a, Str_A, Str_b}
ConceptTypes == {Str_t, Str_t_u}

\* ord() of the characters that occur in names and types
CharOrd(c) ==
    CASE c = "A" -> 65 [] c = "B" -> 66 [] c = "C" -> 67 [] c = "D" -> 68
      [] c = "S" -> 83 [] c = "T" -> 84 [] c = "U" -> 85
      [] c = "_" -> 95
      [] c = "a" -> 97 [] c = "b" -> 98 [] c = "c" -> 99 [] c = "d" -> 100
      [] c = "s" -> 115 [] c = "t" -> 116 [] c = "u" -> 117

\* str.lower() and str.upper() on one character
LowerChar(c) ==
    CASE c = "A" -> "a" [] c = "B" -> "b" [] c = "C" -> "c" [] c = "D" -> "d"
      [] c = "S" -> "s" [] c = "T" -> "t" [] c = "U" -> "u"
      [] OTHER -> c

UpperChar(c) ==
    CASE c = "a" -> "A" [] c = "b" -> "B" [] c = "c" -> "C" [] c = "d" -> "D"
      [] c = "s" -> "S" [] c = "t" -> "T" [] c = "u" -> "U"
      [] OTHER -> c

\* str.lower()
Lower(s) == [i \in 1..Len(s) |-> LowerChar(s[i])]

\* str.capitalize(): first character upper case, the rest lower case
PyCapitalize(s) ==
    [i \in 1..Len(s) |-> IF i = 1 THEN UpperChar(s[i]) ELSE LowerChar(s[i])]

\* str.split('_'): the pieces between underscores, empty pieces included
RECURSIVE SplitUnderscore(_)
SplitUnderscore(s) ==
    IF \A i \in 1..Len(s) : s[i] # "_"
    THEN <<s>>
    ELSE LET k == CHOOSE i \in 1..Len(s) :
                      s[i] = "_" /\ \A j \in 1..(i - 1) : s[j] # "_"
         IN  <<SubSeq(s, 1, k - 1)>> \o SplitUnderscore(SubSeq(s, k + 1, Len(s)))

RECURSIVE JoinStr(_)
JoinStr(parts) ==
    IF parts = <<>> THEN <<>> ELSE Head(parts) \o JoinStr(Tail(parts))

\* Capitalize without the split at underscores (string.capitalize())
Capitalize_whole(string) == PyCapitalize(string)

\* _capitalize(string): ''.join(map(capitalize, string.split('_')))
Capitalize(string) ==
    LET parts == SplitUnderscore(string)
    IN  JoinStr([i \in 1..Len(parts) |-> PyCapitalize(parts[i])])

\* _capitalize(concept_type) or 'Concept'
IndexName(type, default) ==
    IF Capitalize(type) = EmptyStr THEN default ELSE Capitalize(type)

\* str.startswith(prefix)
StartsWith(s, prefix) ==
    Len(prefix) <= Len(s) /\ SubSeq(s, 1, Len(prefix)) = prefix

\* s < t in Python's string order (lexicographic by code point)
StrLess(s, t) ==
    \E k \in 1..(Len(t)) :
        /\ \A j \in 1..(k - 1) : j <= Len(s) /\ s[j] = t[j]
        /\ \/ k = Len(s) + 1
           \/ k <= Len(s) /\ CharOrd(s[k]) < CharOrd(t[k])

----------------------------------------------------------------------------
(* Sequences *)

RECURSIVE SumSeq(_)
SumSeq(s) == IF s = <<>> THEN 0 ELSE Head(s) + SumSeq(Tail(s))

Range(s) == {s[i] : i \in 1..Len(s)}

\* s[:n] for n >= 0
Take(s, n) == SubSeq(s, 1, IF n < Len(s) THEN n ELSE Len(s))

\* s.tail(n) for n >= 0
Tail_n(s, n) == SubSeq(s, (IF n < Len(s) THEN Len(s) - n ELSE 0) + 1, Len(s))

\* the sequences over S of length lo..hi
SeqsOf(S, lo, hi) == UNION {[1..k -> S] : k \in lo..hi}

\* the permutations of 1..k, as sequences
PermsOf(k) == {p \in [1..k -> 1..k] : \A i, j \in 1..k : p[i] = p[j] => i = j}

\* the strings of a set in ascending order (the order of a sorted index)
RECURSIVE SortedStrs(_)
SortedStrs(S) ==
    IF S = {} THEN <<>>
    ELSE LET m == CHOOSE x \in S : \A y \in S \ {x} : StrLess(x, y)
         IN  <<m>> \o SortedStrs(S \ {m})

\* the distinct elements of a sequence in order of first appearance (unique())
RECURSIVE Unique(_)
Unique(s) ==
    IF s = <<>> THEN <<>>
    ELSE LET rest == Unique(SubSeq(s, 1, Len(s) - 1))
             x == s[Len(s)]
         IN  IF x \in Range(rest) THEN rest ELSE Append(rest, x)

----------------------------------------------------------------------------
(* Tables and series *)

\* a table that was not provided (None)
None == [present |-> FALSE, rows |-> <<>>]
Frame(rows) == [present |-> TRUE, rows |-> rows]

\* the value of a call that raised
NoValue == [raised |-> TRUE]

NoRelevantData(msg) == [status |-> "NoRelevantData", value |-> NoValue]
ValueError(msg) == [status |-> "ValueError", value |-> NoValue]
Returned(v) == [status |-> "ok", value |-> v]

\* codes.* tags; a Series built by an arithmetic operation carries none
NoPlotId == "none"

\* frame[mask]: rows selected by a boolean mask
Select(rows, Keep(_)) == SelectSeq(rows, Keep)

\* the value of one column, row by row
Column(rows, Get(_)) == [i \in 1..Len(rows) |-> Get(rows[i])]

\* GroupBySum that keeps the keys in order of first appearance (sort=False)
GroupBySum_unsorted(rows, Key(_), Val(_)) ==
    LET keys == Unique(Column(rows, Key))
    IN  [k \in 1..Len(keys) |->
            [key |-> keys[k],
             num |-> SumSeq(Column(Select(rows, LAMBDA r : Key(r) = keys[k]), Val)),
             den |-> 1,
             nan |-> FALSE]]

\* groupby(key)[col].sum(): one entry per distinct key, keys in ascending
\* order (groupby sorts its keys), value the sum of col over the key's rows
GroupBySum(rows, Key(_), Val(_)) ==
    LET keys == SortedStrs({Key(rows[i]) : i \in 1..Len(rows)})
    IN  [k \in 1..Len(keys) |->
            [key |-> keys[k],
             num |-> SumSeq(Column(Select(rows, LAMBDA r : Key(r) = keys[k]), Val)),
             den |-> 1,
             nan |-> FALSE]]

\* Reindex that puts the labels in index order (reindex(sorted(labels)))
Reindex_sorted(series, labels) ==
    LET lab == SortedStrs(Range(labels))
    IN  [i \in 1..Len(lab) |->
            IF \E k \in 1..Len(series) : series[k].key = lab[i]
            THEN LET k == CHOOSE k \in 1..Len(series) : series[k].key = lab[i]
                 IN  series[k]
            ELSE [key |-> lab[i], num |-> 0, den |-> 1, nan |-> TRUE]]

\* Series.reindex(labels): one entry per label in the order of labels, NaN
\* for a label the series does not have
Reindex(series, labels) ==
    [i \in 1..Len(labels) |->
        IF \E k \in 1..Len(series) : series[k].key = labels[i]
        THEN LET k == CHOOSE k \in 1..Len(series) : series[k].key = labels[i]
             IN  series[k]
        ELSE [key |-> labels[i], num |-> 0, den |-> 1, nan |-> TRUE]]

\* Series.replace(np.nan, v)
ReplaceNaN(series, v) ==
    [i \in 1..Len(series) |->
        IF series[i].nan
        THEN [series[i] EXCEPT !.num = v, !.den = 1, !.nan = FALSE]
        ELSE series[i]]

\* DivideBy that leaves the values as they are
DivideBy_identity(series, size) == series

\* series / size: every value divided by size; x / 0 is NaN or inf
DivideBy(series, size) ==
    [i \in 1..Len(series) |->
        [series[i] EXCEPT !.den = series[i].den * size,
                          !.nan = series[i].nan \/ size = 0]]

\* a.num / a.den < b.num / b.den, for positive denominators
ValLess(a, b) == a.num * b.den < b.num * a.den
ValEq(a, b) == a.num * b.den = b.num * a.den

\* Series.sort_values(ascending): the entries ordered by value.  The sort is
\* numpy's quicksort, which is not stable: entries of equal value come out in
\* an order fixed by the sort routine from their positions in the input
\* (tie[i] is the rank the routine gives position i among equal values).
RECURSIVE SortPositions(_, _, _, _)
SortPositions(series, left, ascending, tie) ==
    IF left = {} THEN <<>>
    ELSE LET Before(i, j) ==
                 \/ IF ascending THEN ValLess(series[i], series[j])
                                 ELSE ValLess(series[j], series[i])
                 \/ ValEq(series[i], series[j]) /\ tie[i] < tie[j]
             m == CHOOSE i \in left : \A j \in left \ {i} : Before(i, j)
         IN  <<m>> \o SortPositions(series, left \ {m}, ascending, tie)

\* SortValues that ignores the direction asked for
SortValues_ascending(series, ascending, tie) ==
    LET pos == SortPositions(series, 1..Len(series), TRUE, tie)
    IN  [i \in 1..Len(series) |-> series[pos[i]]]

SortValues(series, ascending, tie) ==
    LET pos == SortPositions(series, 1..Len(series), ascending, tie)
    IN  [i \in 1..Len(series) |-> series[pos[i]]]

\* the tie orders a sort routine can realise on the groups of a table: one
\* rank per position of the sorted series, which has at most one entry per
\* distinct key of the table
TieOrders(frame, Key(_)) ==
    PermsOf(Cardinality({Key(frame.rows[i]) : i \in 1..Len(frame.rows)}))

----------------------------------------------------------------------------
(* ConceptsDataset *)

\* the rows of a concepts table over the documents docs and the concepts names
ConceptRows(docs, names) ==
    [doc_id : docs, text_order : {0},
     concept : names, freq : Freqs,
     relevance_score : {1}, concept_type : ConceptTypes]

\* ConceptsDataset.__init__ without the empty string among the filters
ConceptsDataset_observed_only(concepts, surface_strings) ==
    [concepts |-> concepts,
     surface_strings |-> surface_strings,
     concept_filter |->
        IF concepts # None
        THEN {concepts.rows[i].concept_type : i \in 1..Len(concepts.rows)}
        ELSE {}]

\* ConceptsDataset.__init__
ConceptsDataset(concepts, surface_strings) ==
    [concepts |-> concepts,
     surface_strings |-> surface_strings,
     concept_filter |->
        (IF concepts # None
         THEN {concepts.rows[i].concept_type : i \in 1..Len(concepts.rows)}
         ELSE {}) \cup {EmptyStr}]

\* OfType with the type matched as a prefix (str.startswith)
OfType_prefix(rows, concept_type) ==
    IF concept_type # EmptyStr
    THEN Select(rows, LAMBDA r : StartsWith(r.concept_type, concept_type))
    ELSE rows

\* con[con.concept_type == concept_type] when a type is given
OfType(rows, concept_type) ==
    IF concept_type # EmptyStr
    THEN Select(rows, LAMBDA r : r.concept_type = concept_type)
    ELSE rows

Freq(r) == r.freq
Concept(r) == r.concept

\* ConceptCounts with the concepts in order of first appearance
ConceptCounts_unsorted(rows) == GroupBySum_unsorted(rows, Concept, Freq)

\* con.groupby('concept').agg({'freq': 'sum'}).freq
ConceptCounts(rows) == GroupBySum(rows, Concept, Freq)

\* what a Series result carries
SeriesResult(values, name, index_name, dtype, plot_id) ==
    [values |-> values, name |-> name, index_name |-> index_name,
     dtype |-> dtype, plot_id |-> plot_id]

\* concept_frequency with the two checks in the other order
concept_frequency_filter_first(self, concept, concept_type, normalize) ==
    IF concept_type \notin self.concept_filter
    THEN ValueError("not valid filter string")
    ELSE IF self.concepts = None
    THEN NoRelevantData("Relevant concept data is not available!")
    ELSE Returned(SeriesResult(<<>>, "Count", Str_Concept, "int", "CONCEPT_FREQUENCY"))

\* ConceptsDataset.concept_frequency; concept is [kind, names]: a single
\* string, a list/tuple or a set; order is the iteration order of the set
concept_frequency(self, concept, concept_type, normalize) ==
    IF self.concepts = None
    THEN NoRelevantData("Relevant concept data is not available!")
    ELSE IF concept_type \notin self.concept_filter
    THEN ValueError("not valid filter string")
    ELSE
    LET con == OfType(self.concepts.rows, concept_type)
        wanted == Range(concept.names)
        counts == ConceptCounts(Select(con, LAMBDA r : r.concept \in wanted))
        filled == ReplaceNaN(Reindex(counts, concept.names), 0)
        size == SumSeq(Column(con, Freq))
    IN  Returned(SeriesResult(
            IF normalize THEN DivideBy(filled, size) ELSE filled,
            "Count", IndexName(concept_type, Str_Concept),
            IF normalize THEN "float" ELSE "int",
            "CONCEPT_FREQUENCY"))


\* ConceptsDataset.most_common_concepts
most_common_concepts(self, n, concept_type, normalize, tie) ==
    IF self.concepts = None
    THEN NoRelevantData("Relevant concept data is not available!")
    ELSE IF concept_type \notin self.concept_filter
    THEN ValueError("not valid filter string")
    ELSE
    LET con == OfType(self.concepts.rows, concept_type)
        con_counts == ConceptCounts(con)
        top == Take(SortValues(con_counts, FALSE, tie), n)
        size == SumSeq(Column(con, Freq))
    IN  Returned(
            IF normalize
            THEN SeriesResult(DivideBy(top, size), "Count",
                              IndexName(concept_type, Str_Concept),
                              "float", NoPlotId)
            ELSE SeriesResult(top, "Count",
                              IndexName(concept_type, Str_Concept),
                              "int", "MOST_COMMON_CONCEPTS"))

\* ConceptsDataset.least_common_concepts
least_common_concepts(self, n, concept_type, normalize, tie) ==
    IF self.concepts = None
    THEN NoRelevantData("Relevant concept data is not available!")
    ELSE IF concept_type \notin self.concept_filter
    THEN ValueError("not valid filter string")
    ELSE
    LET con == OfType(self.concepts.rows, concept_type)
        con_counts == ConceptCounts(con)
        bottom == Take(SortValues(con_counts, TRUE, tie), n)
        size == SumSeq(Column(con, Freq))
    IN  Returned(
            IF normalize
            THEN SeriesResult(DivideBy(bottom, size), "Count",
                              IndexName(concept_type, Str_Concept),
                              "float", NoPlotId)
            ELSE SeriesResult(bottom, "Count",
                              IndexName(concept_type, Str_Concept),
                              "int", "LEAST_COMMON_CONCEPTS"))

\* left.join(right) on the (doc_id, text_order) index: every left entry is
\* paired with every right row of the same index value, in left order; a
\* left entry without partner gives a row of NaN, which has no group
RECURSIVE JoinOnText(_, _)
JoinOnText(left, right) ==
    IF left = <<>> THEN <<>>
    ELSE Select(right, LAMBDA r : /\ r.doc_id = Head(left).doc_id
                                  /\ r.text_order = Head(left).text_order)
         \o JoinOnText(Tail(left), right)

\* ConceptsDataset.co_occurring_concepts
co_occurring_concepts(self, concept, n, concept_type, tie) ==
    IF self.concepts = None
    THEN NoRelevantData("Relevant concept data is not available!")
    ELSE IF concept_type \notin self.concept_filter
    THEN ValueError("not valid filter string")
    ELSE
    LET con == self.concepts.rows
        identity_filter(r) == Lower(r.concept) = Lower(concept)
        relevant_texts ==
            Column(Select(con, identity_filter),
                   LAMBDA r : [doc_id |-> r.doc_id, text_order |-> r.text_order])
        type_filter(r) ==
            IF concept_type # EmptyStr THEN r.concept_type = concept_type
                                       ELSE TRUE
        others == Select(con, LAMBDA r : type_filter(r) /\ ~identity_filter(r))
        joined == JoinOnText(relevant_texts, others)
        con_counts == SortValues(ConceptCounts(joined), FALSE, tie)
        values == IF Len(relevant_texts) # 0 THEN Take(con_counts, n) ELSE <<>>
    IN  Returned([values |-> values, name |-> "Count",
                  index_name |-> IndexName(concept_type, Str_Concept),
                  dtype |-> IF Len(relevant_texts) # 0 THEN "int" ELSE "float",
                  plot_id |-> "CO_OCCURING_CONCEPTS",
                  concept |-> concept])

\* [w] * c
Repeat(w, c) == [i \in 1..c |-> w]

RECURSIVE Chain(_)
Chain(lists) ==
    IF lists = <<>> THEN <<>> ELSE Head(lists) \o Chain(Tail(lists))

\* ConceptsDataset.nltk_textcollection: one text per document of the
\* unfiltered table, each concept of the type repeated freq times
nltk_textcollection(self, concept_type) ==
    IF self.concepts = None
    THEN NoRelevantData("Relevant concept data is not available!")
    ELSE IF concept_type \notin self.concept_filter
    THEN ValueError("not valid filter string")
    ELSE
    LET con == OfType(self.concepts.rows, concept_type)
        doc_ids == Unique(Column(self.concepts.rows, LAMBDA r : r.doc_id))
        DocText(doc_id) ==
            LET concepts == GroupBySum(
                    Select(con, LAMBDA r : r.doc_id = doc_id), Concept, Freq)
            IN  Chain([k \in 1..Len(concepts) |->
                          Repeat(concepts[k].key, concepts[k].num)])
    IN  Returned([texts |-> [d \in 1..Len(doc_ids) |-> DocText(doc_ids[d])]])

\* ConceptsDataset.concept_frequencies; concept_filter is [given, accept]:
\* no callable, or the set of names the callable accepts
concept_frequencies(self, max_concepts, concept_type, concept_filter, tie) ==
    IF self.concepts = None
    THEN NoRelevantData("Relevant concept data is not available!")
    ELSE IF concept_type \notin self.concept_filter
    THEN ValueError("not valid filter string")
    ELSE
    LET typed == OfType(self.concepts.rows, concept_type)
        con == IF concept_filter.given
               THEN Select(typed, LAMBDA r : r.concept \in concept_filter.accept)
               ELSE typed
        data == ConceptCounts(con)
        frequencies == Tail_n(SortValues(data, TRUE, tie), max_concepts)
    IN  Returned([values |-> frequencies, name |-> "freq",
                  index_name |-> IndexName(concept_type, Str_Concept),
                  dtype |-> "int", plot_id |-> "CONCEPT_CLOUD"])

\* groupby('concept').agg({'freq': 'sum', 'relevance_score': 'mean'}): the
\* mean is kept as the pair sum / count
GroupByFreqRelevance(rows) ==
    LET keys == SortedStrs({rows[i].concept : i \in 1..Len(rows)})
    IN  [k \in 1..Len(keys) |->
            LET grp == Select(rows, LAMBDA r : r.concept = keys[k])
            IN  [key |-> keys[k],
                 Frequency |-> SumSeq(Column(grp, Freq)),
                 num |-> SumSeq(Column(grp, LAMBDA r : r.relevance_score)),
                 den |-> Len(grp),
                 nan |-> FALSE]]

\* DataFrame.reindex(labels)
ReindexFrame(frame, labels) ==
    [i \in 1..Len(labels) |->
        IF \E k \in 1..Len(frame) : frame[k].key = labels[i]
        THEN LET k == CHOOSE k \in 1..Len(frame) : frame[k].key = labels[i]
             IN  frame[k]
        ELSE [key |-> labels[i], Frequency |-> 0, num |-> 0, den |-> 1,
              nan |-> TRUE]]

\* ConceptsDataset.frequency_relevance; concepts is [kind, names] with kind
\* "none", "list" or "set"
frequency_relevance(self, concepts, n, concept_type, tie) ==
    IF self.concepts = None
    THEN NoRelevantData("Relevant concept data is not available!")
    ELSE IF concept_type \notin self.concept_filter
    THEN ValueError("not valid filter string")
    ELSE
    LET typed == OfType(self.concepts.rows, concept_type)
        given == concepts.kind # "none" /\ Len(concepts.names) > 0
        con == IF given
               THEN Select(typed, LAMBDA r : r.concept \in Range(concepts.names))
               ELSE typed
        grouped == GroupByFreqRelevance(con)
        ordered ==
            IF ~given THEN Take(SortValues(grouped, FALSE, tie), n)
            ELSE IF concepts.kind = "list" THEN ReindexFrame(grouped, concepts.names)
            ELSE grouped
    IN  Returned([values |-> Select(ordered, LAMBDA e : ~e.nan),
                  index_name |-> IndexName(concept_type, Str_Concept),
                  plot_id |-> "FREQUENCY_RELEVANCE"])

\* ConceptsDataset.make_idf_filter: the returned callable keeps the corpus
\* and the threshold
make_idf_filter(self, threshold, concept_type) ==
    LET corpus == nltk_textcollection(self, concept_type)
    IN  IF corpus.status # "ok" THEN corpus
        ELSE Returned([idf_filter |-> [corpus |-> corpus.value.texts,
                                       threshold |-> threshold]])

Min(S) == CHOOSE x \in S : \A y \in S : x <= y
Max(S) == CHOOSE x \in S : \A y \in S : y <= x

\* ConceptsDataset.make_time_series for a positive delta; dates are day
\* numbers, date_info is a function from document ids to dates, interval is
\* [given, start, stop]
make_time_series(self, concepts, date_info, delta, interval) ==
    IF self.concepts = None
    THEN NoRelevantData("Relevant concept data is not available!")
    ELSE
    LET dates == {date_info[d] : d \in DOMAIN date_info}
        start == IF interval.given THEN interval.start ELSE Min(dates)
        stop == IF interval.given THEN interval.stop ELSE Max(dates) + delta
        con == Select(self.concepts.rows, LAMBDA r : r.concept \in Range(concepts))
        \* the ticks of the loop: last = start + i * delta while last < stop
        nticks == IF start < stop THEN ((stop - start - 1) \div delta) + 1 ELSE 0
        Last(i) == start + (i - 1) * delta
        Count(c, i) ==
            SumSeq(Column(Select(con, LAMBDA r : /\ r.concept = c
                                                 /\ date_info[r.doc_id] >= Last(i)
                                                 /\ date_info[r.doc_id] < Last(i) + delta),
                          Freq))
        Frame_of(c) ==
            [i \in 1..nticks |->
                [Count |-> Count(c, i), Concept |-> c,
                 Start |-> Last(i), Stop |-> Last(i) + delta]]
    IN  \* pd.concat of an empty list raises ValueError
        IF nticks = 0 \/ concepts = <<>>
        THEN ValueError("No objects to concatenate")
        ELSE Returned([frame |-> Chain([k \in 1..Len(concepts) |->
                                           Frame_of(concepts[k])])])

Str_s == <<"s">>
Str_S == <<"S">>
SurfaceStringValues == {Str_s, Str_S}

\* the columns of concepts_surface_strings the queries read
SurfaceRows(docs) ==
    [doc_id : docs, text_order : {0},
     concept : ConceptNames, surface_string : SurfaceStringValues]

\* ConceptsDataset.surface_forms
surface_forms(self, concept, n) ==
    IF self.surface_strings = None
    THEN NoRelevantData("Relevant surface data is not available!")
    ELSE
    LET data == Select(self.surface_strings.rows,
                       LAMBDA r : Lower(r.concept) = Lower(concept))
        forms == Unique(Column(data, LAMBDA r : r.surface_string))
    IN  Returned([set |-> Range(Take(forms, n))])

----------------------------------------------------------------------------
(* ABSADataset: the rating queries *)

EntityNames == ConceptNames
EntityTypes == ConceptTypes

\* sentiment_value of a relation: ordinary ratings and the values the API
\* uses to mark a relation without rating
SentimentValues == {-100, -1, 2, 100}

\* ABSADataset.__init__
ABSADataset(entities, normalized_texts, relations, relations_entities, evaluations, evaluations_entities) ==
    [entities |-> entities,
     normalized_texts |-> normalized_texts,
     relations |-> relations,
     relations_entities |-> relations_entities,
     evaluations |-> evaluations,
     evaluations_entities |-> evaluations_entities]

\* the columns of absa_relations the queries read
RelationRow(doc_id, text_order, relation_id, sentiment_value, surface_string) ==
    [doc_id |-> doc_id, text_order |-> text_order, relation_id |-> relation_id,
     sentiment_value |-> sentiment_value, surface_string |-> surface_string]

\* the rows of absa_relations_entities over the relation ids rel_ids
RelationEntityRows(docs, rel_ids, names) ==
    [doc_id : docs, text_order : {0}, relation_id : rel_ids,
     entity_type : EntityTypes, entity_name : names]

Abs(x) == IF x < 0 THEN -x ELSE x

\* the bound the rating queries put on abs(sentiment_value)
SentinelLimit == 100

\* NonSentinel that lets the bound itself through
NonSentinel_inclusive(rels) ==
    Select(rels, LAMBDA r : Abs(r.sentiment_value) <= SentinelLimit)

\* rels[rels.sentiment_value.abs() < 100]
NonSentinel(rels) ==
    Select(rels, LAMBDA r : Abs(r.sentiment_value) < SentinelLimit)

SameRelation(l, r) ==
    /\ l.doc_id = r.doc_id
    /\ l.text_order = r.text_order
    /\ l.relation_id = r.relation_id

\* a row of the join of relations with relations_entities; matched is FALSE
\* for a relation a left join kept without partner (its entity columns are NaN)
Joined(l, r, matched) ==
    [doc_id |-> l.doc_id, text_order |-> l.text_order,
     relation_id |-> l.relation_id, sentiment_value |-> l.sentiment_value,
     surface_string |-> l.surface_string,
     entity_type |-> r.entity_type, entity_name |-> r.entity_name,
     matched |-> matched]

NaNEntity == [entity_type |-> EmptyStr, entity_name |-> EmptyStr]

\* pd.merge(rels, ents, 'inner', on=idx): every relation paired with each of
\* its entity rows, in the order of the relations
RECURSIVE MergeInner(_, _)
MergeInner(rels, ents) ==
    IF rels = <<>> THEN <<>>
    ELSE LET l == Head(rels)
             partners == Select(ents, LAMBDA r : SameRelation(l, r))
         IN  [k \in 1..Len(partners) |-> Joined(l, partners[k], TRUE)]
             \o MergeInner(Tail(rels), ents)

\* rels.set_index(idx).join(ents.set_index(idx)): a left join, a relation
\* without entity row is kept with NaN in the entity columns
RECURSIVE JoinLeft(_, _)
JoinLeft(rels, ents) ==
    IF rels = <<>> THEN <<>>
    ELSE LET l == Head(rels)
             partners == Select(ents, LAMBDA r : SameRelation(l, r))
         IN  (IF partners = <<>> THEN <<Joined(l, NaNEntity, FALSE)>>
              ELSE [k \in 1..Len(partners) |-> Joined(l, partners[k], TRUE)])
             \o JoinLeft(Tail(rels), ents)

\* frame[frame.entity_type.str.startswith(entity_type)]
\* OfEntityType that lets every row through
OfEntityType_unfiltered(rows, entity_type) == rows

\* OfEntityType that asks for the very type
OfEntityType_exact(rows, entity_type) ==
    Select(rows, LAMBDA r : r.entity_type = entity_type)

OfEntityType(rows, entity_type) ==
    Select(rows, LAMBDA r : StartsWith(r.entity_type, entity_type))

EntityName(r) == r.entity_name
SentimentValue(r) == r.sentiment_value

\* groupby(key)[col].mean(): one entry per distinct key, keys ascending, the
\* mean kept as the pair sum / count
GroupByMean(rows, Key(_), Val(_)) ==
    LET keys == SortedStrs({Key(rows[i]) : i \in 1..Len(rows)})
    IN  [k \in 1..Len(keys) |->
            LET grp == Select(rows, LAMBDA r : Key(r) = keys[k])
            IN  [key |-> keys[k],
                 num |-> SumSeq(Column(grp, Val)),
                 den |-> Len(grp),
                 nan |-> FALSE]]

\* ent_evals.groupby('entity_name').agg({'sentiment_value': 'mean'})
EntityMeans(rows) == GroupByMean(rows, EntityName, SentimentValue)

\* an exception raised inside pandas (masking with a vector that holds NaN)
PandasError == [status |-> "PandasError", value |-> NoValue]

\* ABSADataset.best_rated_entities
best_rated_entities(self, n, entity_type, tie) ==
    IF self.relations = None \/ self.relations_entities = None
    THEN NoRelevantData("Relevant relation data is not available!")
    ELSE
    LET rels == NonSentinel(self.relations.rows)
        ents == self.relations_entities.rows
        ent_evals == OfEntityType(MergeInner(rels, ents), entity_type)
        mean_evals == EntityMeans(ent_evals)
        res == Take(SortValues(mean_evals, FALSE, tie), n)
    IN  Returned(SeriesResult(res, "Sentiment",
                              IndexName(entity_type, Str_Entity),
                              "float", "BEST_RATED_ENTITIES"))

\* ABSADataset.worst_rated_entities
worst_rated_entities(self, n, entity_type, tie) ==
    IF self.relations = None \/ self.relations_entities = None
    THEN NoRelevantData("Relevant relation data is not available!")
    ELSE
    LET rels == NonSentinel(self.relations.rows)
        ents == self.relations_entities.rows
        joined == JoinLeft(rels, ents)
        ent_evals == OfEntityType(joined, entity_type)
        mean_evals == EntityMeans(ent_evals)
        res == Take(SortValues(mean_evals, TRUE, tie), n)
    IN  IF \E i \in 1..Len(joined) : ~joined[i].matched
        THEN PandasError
        ELSE Returned(SeriesResult(res, "Sentiment",
                                   IndexName(entity_type, Str_Entity),
                                   "float", "WORST_RATED_ENTITIES"))

\* entity_sentiment without the reindex on the requested names: only the
\* entities that have a rating, in the order of the groupby
entity_sentiment_rated_only(self, entity) ==
    IF self.relations = None \/ self.relations_entities = None
    THEN NoRelevantData("Relevant relation data is not available!")
    ELSE
    LET all_ent_evals == MergeInner(NonSentinel(self.relations.rows),
                                    self.relations_entities.rows)
        entity_evals ==
            Select(all_ent_evals, LAMBDA r : r.entity_name \in Range(entity.names))
    IN  Returned(SeriesResult(EntityMeans(entity_evals), "Sentiment",
                              Str_Entity, "float", "ENTITY_SENTIMENT"))

\* ABSADataset.entity_sentiment; entity is [kind, names] as for
\* concept_frequency
entity_sentiment(self, entity) ==
    IF self.relations = None \/ self.relations_entities = None
    THEN NoRelevantData("Relevant relation data is not available!")
    ELSE
    LET rels == NonSentinel(self.relations.rows)
        ents == self.relations_entities.rows
        all_ent_evals == MergeInner(rels, ents)
        entity_evals ==
            Select(all_ent_evals, LAMBDA r : r.entity_name \in Range(entity.names))
        means == EntityMeans(entity_evals)
        res == Reindex(means, entity.names)
    IN  Returned(SeriesResult(res, "Sentiment", Str_Entity, "float",
                              "ENTITY_SENTIMENT"))

----------------------------------------------------------------------------
(* ABSADataset: the entity queries *)

\* the columns of absa_entities the queries read
EntityRows(docs) ==
    [doc_id : docs, text_order : {0},
     entity_name : EntityNames, entity_type : EntityTypes]

\* Series.value_counts(normalize, ascending): the number of rows of every
\* distinct value, the values taken in order of first appearance and then
\* sorted by count; normalize divides by the number of rows
ValueCounts(names, normalize, ascending, tie) ==
    LET keys == Unique(names)
        counts == [k \in 1..Len(keys) |->
                      [key |-> keys[k],
                       num |-> Cardinality({i \in 1..Len(names) : names[i] = keys[k]}),
                       den |-> 1,
                       nan |-> FALSE]]
        sorted == SortValues(counts, ascending, tie)
    IN  IF normalize THEN DivideBy(sorted, Len(names)) ELSE sorted

\* ABSADataset.entity_frequency
entity_frequency(self, entity, entity_type, normalize, tie) ==
    IF self.entities = None
    THEN NoRelevantData("Relevant entities data is not available!")
    ELSE
    LET ents == OfEntityType(self.entities.rows, entity_type)
        counts == ValueCounts(Column(ents, EntityName), normalize, FALSE, tie)
        res == ReplaceNaN(Reindex(counts, entity.names), 0)
    IN  Returned(SeriesResult(res, "Count",
                              IndexName(entity_type, Str_Entity),
                              IF normalize THEN "float" ELSE "int",
                              "ENTITY_FREQUENCY"))

\* ABSADataset.most_common_entities
most_common_entities(self, n, entity_type, normalize, tie) ==
    IF self.entities = None
    THEN NoRelevantData("Relevant entity data is not available!")
    ELSE
    LET ent == OfEntityType(self.entities.rows, entity_type)
        res == Take(ValueCounts(Column(ent, EntityName), normalize, FALSE, tie), n)
    IN  Returned(SeriesResult(res, "Count",
                              IndexName(entity_type, Str_Entity),
                              IF normalize THEN "float" ELSE "int",
                              "MOST_COMMON_ENTITIES"))

\* ABSADataset.least_common_entities; the Series keeps the column's name
least_common_entities(self, n, entity_type, normalize, tie) ==
    IF self.entities = None
    THEN NoRelevantData("Relevant entity data is not available!")
    ELSE
    LET ent == OfEntityType(self.entities.rows, entity_type)
        res == Take(ValueCounts(Column(ent, EntityName), normalize, TRUE, tie), n)
    IN  Returned(SeriesResult(res, "entity_name",
                              IndexName(entity_type, Str_Entity),
                              IF normalize THEN "float" ELSE "int",
                              "LEAST_COMMON_ENTITIES"))

\* frame[['doc_id', 'text_order']].drop_duplicates()
TextKey(r) == [doc_id |-> r.doc_id, text_order |-> r.text_order]

\* groupby('entity_name').size()
EntitySizes(rows) ==
    LET keys == SortedStrs({rows[i].entity_name : i \in 1..Len(rows)})
    IN  [k \in 1..Len(keys) |->
            [key |-> keys[k],
             num |-> Cardinality({i \in 1..Len(rows) : rows[i].entity_name = keys[k]}),
             den |-> 1,
             nan |-> FALSE]]

\* pd.Series([]).rename('Count') with the index named: the result of
\* co_occurring_entities when nothing co-occurs
EmptyCount(index_name) ==
    SeriesResult(<<>>, "Count", index_name, "float", NoPlotId)

\* ABSADataset.co_occurring_entities
co_occurring_entities(self, entity, n, entity_type, tie) ==
    IF self.entities = None
    THEN NoRelevantData("Relevant entity data is not available!")
    ELSE
    LET index_name == IndexName(entity_type, Str_Entity)
        ent == self.entities.rows
        entity_filter(r) == Lower(r.entity_name) = Lower(entity)
        docs == Unique(Column(Select(ent, entity_filter), TextKey))
        others == Select(ent, LAMBDA r : /\ StartsWith(r.entity_type, entity_type)
                                         /\ ~entity_filter(r))
        joined == JoinOnText(docs, others)
        res == Take(SortValues(EntitySizes(joined), FALSE, tie), n)
    IN  IF Len(docs) = 0 \/ Len(joined) = 0
        THEN Returned(EmptyCount(index_name))
        ELSE Returned([values |-> res, name |-> "Count",
                       index_name |-> index_name, dtype |-> "int",
                       plot_id |-> "CO_OCCURING_ENTITIES", entity |-> entity])

\* {key: [] for key in entity} updated with one list per group of grp: the
\* keys are the requested names and the entity names of the grouped rows
GroupLists(names, rows, Val(_)) ==
    LET groups == {rows[i].entity_name : i \in 1..Len(rows)}
    IN  [key \in Range(names) \cup groups |->
            Column(Select(rows, LAMBDA r : r.entity_name = key), Val)]

\* IsIn that keeps every row
IsIn_all(rows, names) == rows

\* frame[frame.entity_name.isin(entity)]
IsIn(rows, names) ==
    Select(rows, LAMBDA r : r.entity_name \in Range(names))

\* ents[ents.entity_name.isin(entity)][idx].drop_duplicates()
RequestedEntities(ents, names, Key(_)) ==
    Unique(Column(IsIn(ents, names), Key))

RelationEntityKey(r) ==
    [doc_id |-> r.doc_id, text_order |-> r.text_order,
     relation_id |-> r.relation_id, entity_name |-> r.entity_name]

\* pd.merge(rels, ents, on=idx[:3]) for surface_strings
MergeRelationNames(rels, ents) ==
    MergeInner(rels, [i \in 1..Len(ents) |->
                        [doc_id |-> ents[i].doc_id,
                         text_order |-> ents[i].text_order,
                         relation_id |-> ents[i].relation_id,
                         entity_type |-> EmptyStr,
                         entity_name |-> ents[i].entity_name]])

\* ABSADataset.surface_strings
surface_strings(self, entity) ==
    IF self.relations = None \/ self.relations_entities = None
    THEN NoRelevantData("Relevant relation data is not available!")
    ELSE
    LET rels == self.relations.rows
        ents == RequestedEntities(self.relations_entities.rows, entity.names,
                                  RelationEntityKey)
        grp == MergeRelationNames(rels, ents)
    IN  Returned([dict |-> GroupLists(entity.names, grp, LAMBDA r : r.surface_string)])

EntityTextKey(r) ==
    [doc_id |-> r.doc_id, text_order |-> r.text_order,
     entity_name |-> r.entity_name]

\* pd.merge(ent, texts, on=['doc_id', 'text_order'])
RECURSIVE MergeTexts(_, _)
MergeTexts(ent, texts) ==
    IF ent = <<>> THEN <<>>
    ELSE LET l == Head(ent)
             partners == Select(texts, LAMBDA r : TextKey(r) = TextKey(l))
         IN  [k \in 1..Len(partners) |->
                 [doc_id |-> l.doc_id, text_order |-> l.text_order,
                  entity_name |-> l.entity_name,
                  normalized_text |-> partners[k].normalized_text]]
             \o MergeTexts(Tail(ent), texts)

\* ABSADataset.entity_texts
entity_texts(self, entity) ==
    IF self.entities = None \/ self.normalized_texts = None
    THEN NoRelevantData("Relevant entity data is not available!")
    ELSE
    LET ent == RequestedEntities(self.entities.rows, entity.names, EntityTextKey)
        ent_texts == MergeTexts(ent, self.normalized_texts.rows)
    IN  Returned([dict |-> GroupLists(entity.names, ent_texts,
                                      LAMBDA r : r.normalized_text)])

----------------------------------------------------------------------------
(* DatasetLoader: construction *)

\* no DatasetLoader instance
NoLoader == [has_data |-> FALSE]

\* has_concepts with the concepts table alone
HasConcepts_table_only(concepts, concepts_surface_strings) == concepts # None

\* self.has_concepts
HasConcepts(concepts, concepts_surface_strings) ==
    concepts # None \/ concepts_surface_strings # None

\* the no-data test that never fires
NoDataProvided_never(has_categories, has_concepts, has_sentiments, has_absa) == FALSE

\* not (has_categories or has_concepts or has_sentiments or has_absa)
NoDataProvided(has_categories, has_concepts, has_sentiments, has_absa) ==
    ~(has_categories \/ has_concepts \/ has_sentiments \/ has_absa)

\* DatasetLoader.__init__: the has_* flags, ValueError when no group has
\* data, else the instance with its ten tables
DatasetLoader(concepts, concepts_surface_strings, categories, sentiments, absa_entities, absa_normalized_texts, absa_relations, absa_relations_entities, absa_evaluations, absa_evaluations_entities) ==
    LET has_categories == categories # None
        has_concepts == HasConcepts(concepts, concepts_surface_strings)
        has_sentiments == sentiments # None
        has_absa == \/ absa_entities # None
                    \/ absa_normalized_texts # None
                    \/ absa_relations # None
                    \/ absa_relations_entities # None
                    \/ absa_evaluations # None
                    \/ absa_evaluations_entities # None
    IN  IF NoDataProvided(has_categories, has_concepts, has_sentiments, has_absa)
        THEN ValueError("No data provided. Please provide at least one valid argument")
        ELSE Returned(
            [has_categories |-> has_categories,
             has_concepts |-> has_concepts,
             has_sentiments |-> has_sentiments,
             has_absa |-> has_absa,
             categories |-> IF has_categories THEN categories ELSE None,
             concepts |-> IF has_concepts THEN concepts ELSE None,
             concepts_surface_strings |->
                 IF has_concepts THEN concepts_surface_strings ELSE None,
             sentiments |-> IF has_sentiments THEN sentiments ELSE None,
             absa_entities |-> IF has_absa THEN absa_entities ELSE None,
             absa_normalized_texts |->
                 IF has_absa THEN absa_normalized_texts ELSE None,
             absa_relations |-> IF has_absa THEN absa_relations ELSE None,
             absa_relations_entities |->
                 IF has_absa THEN absa_relations_entities ELSE None,
             absa_evaluations |-> IF has_absa THEN absa_evaluations ELSE None,
             absa_evaluations_entities |->
                 IF has_absa THEN absa_evaluations_entities ELSE None])

----------------------------------------------------------------------------
(* CategoriesDataset and SentimentDataset *)

Str_c == <<"c">>
Str_d == <<"d">>
Str_Category == <<"C", "a", "t", "e", "g", "o", "r", "y">>
CategoryNames == {Str_c, Str_d}

\* probability of a category, in hundredths
Probabilities == {25, 75}

CategoryRows(docs) ==
    [doc_id : docs, text_order : {0},
     category : CategoryNames, probability : Probabilities]

\* CategoriesDataset.__init__
CategoriesDataset(categories) == [categories |-> categories]

Category(r) == r.category
Probability(r) == r.probability

\* the sum of the probabilities of each category instead of their mean
CategoryMeans_sum(rows) ==
    LET keys == SortedStrs({rows[i].category : i \in 1..Len(rows)})
    IN  [k \in 1..Len(keys) |->
            [key |-> keys[k],
             num |-> SumSeq(Column(Select(rows, LAMBDA r : r.category = keys[k]),
                                   Probability)),
             den |-> 1,
             nan |-> FALSE]]

\* cat.groupby('category')['probability'].mean()
CategoryMeans(rows) == GroupByMean(rows, Category, Probability)

\* CategoriesDataset.categories
categories(self, tie) ==
    IF self.categories = None
    THEN NoRelevantData("Relevant category data is not available!")
    ELSE
    LET all_cats == SortValues(CategoryMeans(self.categories.rows), FALSE, tie)
    IN  Returned(SeriesResult(all_cats, "Probability", Str_Category, "float",
                              "AGGREGATED_CATEGORIES"))

\* index[0] of an empty index raises
IndexError == [status |-> "IndexError", value |-> NoValue]

\* CategoriesDataset.main_category
main_category(self, tie) ==
    IF self.categories = None
    THEN NoRelevantData("Relevant category data is not available!")
    ELSE
    LET all_cats == SortValues(CategoryMeans(self.categories.rows), FALSE, tie)
    IN  IF all_cats = <<>> THEN IndexError
        ELSE Returned([category |-> all_cats[1].key])

\* sentiment_value of a document, in hundredths
DocSentiments == {-50, 50}

SentimentRows(docs) ==
    [doc_id : docs, text_order : {0}, sentiment_value : DocSentiments]

\* SentimentDataset.__init__
SentimentDataset(sentiments) == [sentiments |-> sentiments]

\* SentimentDataset.average_sentiment: the mean as the pair sum / count, NaN
\* for a table without rows
average_sentiment(self) ==
    IF self.sentiments = None
    THEN NoRelevantData("Relevant sentiment data is not available!")
    ELSE
    LET sen == self.sentiments.rows
    IN  Returned([num |-> SumSeq(Column(sen, SentimentValue)),
                  den |-> IF sen = <<>> THEN 1 ELSE Len(sen),
                  nan |-> sen = <<>>])

----------------------------------------------------------------------------
(* DatasetLoader: the dataset properties and filter *)

\* DatasetLoader.concepts
DatasetLoader_concepts(self) ==
    IF self.has_concepts
    THEN Returned(ConceptsDataset(self.concepts, self.concepts_surface_strings))
    ELSE NoRelevantData("Concepts data not available!")

\* DatasetLoader.categories
DatasetLoader_categories(self) ==
    IF self.has_categories
    THEN Returned(CategoriesDataset(self.categories))
    ELSE NoRelevantData("Categories data not available!")

\* DatasetLoader.sentiments
DatasetLoader_sentiments(self) ==
    IF self.has_sentiments
    THEN Returned(SentimentDataset(self.sentiments))
    ELSE NoRelevantData("Sentiment data is not available!")

\* DatasetLoader.absa
DatasetLoader_absa(self) ==
    IF self.has_absa
    THEN Returned(ABSADataset(self.absa_entities, self.absa_normalized_texts,
                              self.absa_relations, self.absa_relations_entities,
                              self.absa_evaluations,
                              self.absa_evaluations_entities))
    ELSE NoRelevantData("ABSA data is not available!")

\* f(frame) that also loses the first of the rows it should keep
FilterFrame_skip_first(frame, document_ids) ==
    IF frame = None THEN None
    ELSE LET kept == Select(frame.rows, LAMBDA r : r.doc_id \in document_ids)
         IN  Frame(IF kept = <<>> THEN <<>> ELSE Tail(kept))

\* f(frame) that returns the frame as it is
FilterFrame_unfiltered(frame, document_ids) == frame

\* f(frame) that returns None for a frame left without rows
FilterFrame_drop_empty(frame, document_ids) ==
    IF frame = None THEN None
    ELSE LET kept == Select(frame.rows, LAMBDA r : r.doc_id \in document_ids)
         IN  IF kept = <<>> THEN None ELSE Frame(kept)

\* f(frame) of DatasetLoader.filter: None stays None, a frame keeps the rows
\* whose doc_id is in document_ids
FilterFrame(frame, document_ids) ==
    IF frame = None THEN None
    ELSE Frame(Select(frame.rows, LAMBDA r : r.doc_id \in document_ids))

\* filter without the test for an empty document_ids
filter_unchecked(self, document_ids) ==
    DatasetLoader(FilterFrame(self.concepts, document_ids),
                  FilterFrame(self.concepts_surface_strings, document_ids),
                  FilterFrame(self.categories, document_ids),
                  FilterFrame(self.sentiments, document_ids),
                  FilterFrame(self.absa_entities, document_ids),
                  FilterFrame(self.absa_normalized_texts, document_ids),
                  FilterFrame(self.absa_relations, document_ids),
                  FilterFrame(self.absa_relations_entities, document_ids),
                  FilterFrame(self.absa_evaluations, document_ids),
                  FilterFrame(self.absa_evaluations_entities, document_ids))

\* DatasetLoader.filter
filter(self, document_ids) ==
    IF Cardinality(document_ids) = 0
    THEN ValueError("Can't use empty filter")
    ELSE DatasetLoader(FilterFrame(self.concepts, document_ids),
                       FilterFrame(self.concepts_surface_strings, document_ids),
                       FilterFrame(self.categories, document_ids),
                       FilterFrame(self.sentiments, document_ids),
                       FilterFrame(self.absa_entities, document_ids),
                       FilterFrame(self.absa_normalized_texts, document_ids),
                       FilterFrame(self.absa_relations, document_ids),
                       FilterFrame(self.absa_relations_entities, document_ids),
                       FilterFrame(self.absa_evaluations, document_ids),
                       FilterFrame(self.absa_evaluations_entities, document_ids))

----------------------------------------------------------------------------
(* The queries as steps *)

TypeArgs == ConceptTypes \cup {EmptyStr}

\* a single name, a list of two names, or a set of two names in the order
\* its iteration gives
NameArgs(names) ==
    {[kind |-> "str", names |-> <<c>>] : c \in names}
    \cup {[kind |-> "list", names |-> l] : l \in SeqsOf(names, 2, 2)}
    \cup {[kind |-> "set", names |-> l] :
            l \in {q \in SeqsOf(names, 2, 2) : q[1] # q[2]}}

ConceptArgs == NameArgs(ConceptNames)
EntityArgs == NameArgs(EntityNames)

NoCall == [op |-> "none"]

\* no Writer, no Analyzer and no _analysis call exist
NoWriter == [kind |-> "none"]
NoAnalyzer == [entered |-> FALSE, exited |-> FALSE]
NoRequest == [pc |-> "none"]
NoApi == writer = NoWriter /\ analyzer = NoAnalyzer /\ request = NoRequest
NoResult == [status |-> "none", value |-> NoValue]

\* a query is made when the caller holds no result of an earlier one
Query(c, r) ==
    /\ call = NoCall
    /\ call' = c
    /\ result' = r
    /\ UNCHANGED <<loader, concepts_ds, absa_ds, categories_ds, sentiment_ds>>
    /\ UNCHANGED api_vars

ConceptFrequency ==
    \E concept \in ConceptArgs, concept_type \in TypeArgs, normalize \in BOOLEAN :
        Query([op |-> "concept_frequency", concept |-> concept,
               concept_type |-> concept_type, normalize |-> normalize],
              concept_frequency(concepts_ds, concept, concept_type, normalize))

MostCommonConcepts ==
    \E n \in 0..MaxN, concept_type \in TypeArgs, normalize \in BOOLEAN,
       tie \in TieOrders(concepts_ds.concepts, Concept) :
        Query([op |-> "most_common_concepts", n |-> n,
               concept_type |-> concept_type, normalize |-> normalize],
              most_common_concepts(concepts_ds, n, concept_type, normalize, tie))

LeastCommonConcepts ==
    \E n \in 0..MaxN, concept_type \in TypeArgs, normalize \in BOOLEAN,
       tie \in TieOrders(concepts_ds.concepts, Concept) :
        Query([op |-> "least_common_concepts", n |-> n,
               concept_type |-> concept_type, normalize |-> normalize],
              least_common_concepts(concepts_ds, n, concept_type, normalize, tie))

CoOccurringConcepts ==
    \E concept \in ConceptNames, n \in 0..MaxN, concept_type \in TypeArgs,
       tie \in TieOrders(concepts_ds.concepts, Concept) :
        Query([op |-> "co_occurring_concepts", concept |-> concept, n |-> n,
               concept_type |-> concept_type],
              co_occurring_concepts(concepts_ds, concept, n, concept_type, tie))

NltkTextcollection ==
    \E concept_type \in TypeArgs :
        Query([op |-> "nltk_textcollection", concept_type |-> concept_type],
              nltk_textcollection(concepts_ds, concept_type))

MakeIdfFilter ==
    \E threshold \in {1}, concept_type \in TypeArgs :
        Query([op |-> "make_idf_filter", threshold |-> threshold,
               concept_type |-> concept_type],
              make_idf_filter(concepts_ds, threshold, concept_type))

MakeTimeSeries ==
    \E concepts \in {<<>>, <<Str_a>>, <<Str_b, Str_a>>},
       date_info \in {[d \in DocIds |-> d], [d \in DocIds |-> 1]},
       delta \in {1, 2},
       interval \in {[given |-> FALSE, start |-> 0, stop |-> 0],
                     [given |-> TRUE, start |-> 0, stop |-> 2],
                     [given |-> TRUE, start |-> 1, stop |-> 1]} :
        Query([op |-> "make_time_series", concepts |-> concepts,
               date_info |-> date_info, delta |-> delta, interval |-> interval],
              make_time_series(concepts_ds, concepts, date_info, delta, interval))

ConceptFrequencies ==
    \E max_concepts \in 0..MaxN, concept_type \in TypeArgs,
       concept_filter \in {[given |-> FALSE, accept |-> {}],
                           [given |-> TRUE, accept |-> {Str_a, Str_b}]},
       tie \in TieOrders(concepts_ds.concepts, Concept) :
        Query([op |-> "concept_frequencies", max_concepts |-> max_concepts,
               concept_type |-> concept_type, concept_filter |-> concept_filter],
              concept_frequencies(concepts_ds, max_concepts, concept_type,
                                  concept_filter, tie))

FrequencyRelevance ==
    \E concepts \in {[kind |-> "none", names |-> <<>>],
                     [kind |-> "list", names |-> <<Str_b, Str_a>>]},
       n \in 0..MaxN, concept_type \in TypeArgs, tie \in TieOrders(concepts_ds.concepts, Concept) :
        Query([op |-> "frequency_relevance", concepts |-> concepts, n |-> n,
               concept_type |-> concept_type],
              frequency_relevance(concepts_ds, concepts, n, concept_type, tie))

SurfaceForms ==
    \E concept \in ConceptNames, n \in 0..MaxN :
        Query([op |-> "surface_forms", concept |-> concept, n |-> n],
              surface_forms(concepts_ds, concept, n))

AggregateCategories ==
    \E tie \in TieOrders(categories_ds.categories, Category) :
        Query([op |-> "categories", tie |-> tie], categories(categories_ds, tie))

MainCategory ==
    \E tie \in TieOrders(categories_ds.categories, Category) :
        Query([op |-> "main_category", tie |-> tie],
              main_category(categories_ds, tie))

AverageSentiment ==
    Query([op |-> "average_sentiment"], average_sentiment(sentiment_ds))

EntityFrequency ==
    \E entity \in EntityArgs, entity_type \in TypeArgs, normalize \in BOOLEAN,
       tie \in TieOrders(absa_ds.entities, EntityName) :
        Query([op |-> "entity_frequency", entity |-> entity,
               entity_type |-> entity_type, normalize |-> normalize],
              entity_frequency(absa_ds, entity, entity_type, normalize, tie))

MostCommonEntities ==
    \E n \in 0..MaxN, entity_type \in TypeArgs, normalize \in BOOLEAN,
       tie \in TieOrders(absa_ds.entities, EntityName) :
        Query([op |-> "most_common_entities", n |-> n,
               entity_type |-> entity_type, normalize |-> normalize],
              most_common_entities(absa_ds, n, entity_type, normalize, tie))

LeastCommonEntities ==
    \E n \in 0..MaxN, entity_type \in TypeArgs, normalize \in BOOLEAN,
       tie \in TieOrders(absa_ds.entities, EntityName) :
        Query([op |-> "least_common_entities", n |-> n,
               entity_type |-> entity_type, normalize |-> normalize],
              least_common_entities(absa_ds, n, entity_type, normalize, tie))

CoOccurringEntities ==
    \E entity \in EntityNames, n \in 0..MaxN, entity_type \in TypeArgs,
       tie \in TieOrders(absa_ds.entities, EntityName) :
        Query([op |-> "co_occurring_entities", entity |-> entity, n |-> n,
               entity_type |-> entity_type],
              co_occurring_entities(absa_ds, entity, n, entity_type, tie))

BestRatedEntities ==
    \E n \in 0..MaxN, entity_type \in TypeArgs,
       tie \in TieOrders(absa_ds.relations_entities, EntityName) :
        Query([op |-> "best_rated_entities", n |-> n, entity_type |-> entity_type],
              best_rated_entities(absa_ds, n, entity_type, tie))

WorstRatedEntities ==
    \E n \in 0..MaxN, entity_type \in TypeArgs,
       tie \in TieOrders(absa_ds.relations_entities, EntityName) :
        Query([op |-> "worst_rated_entities", n |-> n, entity_type |-> entity_type],
              worst_rated_entities(absa_ds, n, entity_type, tie))

SurfaceStrings ==
    \E entity \in EntityArgs :
        Query([op |-> "surface_strings", entity |-> entity],
              surface_strings(absa_ds, entity))

EntityTexts ==
    \E entity \in EntityArgs :
        Query([op |-> "entity_texts", entity |-> entity],
              entity_texts(absa_ds, entity))

EntitySentiment ==
    \E entity \in EntityArgs :
        Query([op |-> "entity_sentiment", entity |-> entity],
              entity_sentiment(absa_ds, entity))

\* the dataset properties of the loader
LoaderConcepts ==
    /\ loader # NoLoader
    /\ Query([op |-> "concepts"], DatasetLoader_concepts(loader))

LoaderCategories ==
    /\ loader # NoLoader
    /\ Query([op |-> "categories_dataset"], DatasetLoader_categories(loader))

LoaderSentiments ==
    /\ loader # NoLoader
    /\ Query([op |-> "sentiments"], DatasetLoader_sentiments(loader))

LoaderAbsa ==
    /\ loader # NoLoader
    /\ Query([op |-> "absa"], DatasetLoader_absa(loader))

\* loader.filter(document_ids)
Filter ==
    \E document_ids \in SUBSET DocIds :
        /\ loader # NoLoader
        /\ Query([op |-> "filter", document_ids |-> document_ids],
                 filter(loader, document_ids))

\* the caller keeps the loader that the constructor or filter returned
KeepLoader ==
    /\ call.op \in {"DatasetLoader", "filter"}
    /\ result.status = "ok"
    /\ loader' = result.value
    /\ call' = NoCall
    /\ result' = NoResult
    /\ UNCHANGED <<concepts_ds, absa_ds, categories_ds, sentiment_ds>>
    /\ UNCHANGED api_vars

\* the caller keeps the dataset that a property of the loader returned
KeepDataset ==
    /\ call.op \in {"concepts", "categories_dataset", "sentiments", "absa"}
    /\ result.status = "ok"
    /\ concepts_ds' = IF call.op = "concepts" THEN result.value ELSE concepts_ds
    /\ categories_ds' =
          IF call.op = "categories_dataset" THEN result.value ELSE categories_ds
    /\ sentiment_ds' = IF call.op = "sentiments" THEN result.value ELSE sentiment_ds
    /\ absa_ds' = IF call.op = "absa" THEN result.value ELSE absa_ds
    /\ call' = NoCall
    /\ result' = NoResult
    /\ UNCHANGED loader
    /\ UNCHANGED api_vars

\* the caller is done with the result of the last query
Release ==
    /\ call # NoCall
    /\ call' = NoCall
    /\ result' = NoResult
    /\ UNCHANGED <<loader, concepts_ds, absa_ds, categories_ds, sentiment_ds>>
    /\ UNCHANGED api_vars

\* the concepts tables a writer can produce (at least one row)
ConceptTables(docs, names, max_rows) ==
    {Frame(rows) : rows \in SeqsOf(ConceptRows(docs, names), 1, max_rows)}

NoConcepts == concepts_ds = ConceptsDataset(None, None)
NoAbsa == absa_ds = ABSADataset(None, None, None, None, None, None)
NoCategories == categories_ds = CategoriesDataset(None)
NoSentiments == sentiment_ds = SentimentDataset(None)
NoQuery == call = NoCall /\ result = NoResult

\* DatasetLoader(concepts=t)
ConceptsLoader(t) ==
    DatasetLoader(t, None, None, None, None, None, None, None, None, None).value

\* the frequency and ranking queries of a ConceptsDataset, on the tables of
\* one document about the concepts a and b (A is asked for, never stored);
\* the dataset comes from a loader, which can be filtered
Init ==
    /\ \E t \in ConceptTables({0}, {Str_a, Str_b}, MaxRows) :
          /\ loader = ConceptsLoader(t)
          /\ concepts_ds = ConceptsDataset(t, None)
    /\ NoAbsa /\ NoCategories /\ NoSentiments /\ NoQuery /\ NoApi

Next ==
    \/ ConceptFrequency
    \/ MostCommonConcepts
    \/ LeastCommonConcepts
    \/ CoOccurringConcepts
    \/ NltkTextcollection
    \/ ConceptFrequencies
    \/ FrequencyRelevance
    \/ Filter
    \/ KeepLoader
    \/ LoaderConcepts
    \/ KeepDataset
    \/ Release

Spec == Init /\ [][Next]_vars

\* the co-occurrence query of a ConceptsDataset
InitCoOcc ==
    /\ concepts_ds \in
          {ConceptsDataset(t, None) : t \in ConceptTables(DocIds, ConceptNames, MaxCoRows)}
    /\ loader = NoLoader
    /\ NoAbsa /\ NoCategories /\ NoSentiments /\ NoQuery /\ NoApi

NextCoOcc ==
    \/ CoOccurringConcepts
    \/ Release

SpecCoOcc == InitCoOcc /\ [][NextCoOcc]_vars

\* the relation ids of one text
RelationIds == {0, 1}

\* the relations tables of that text: relation k has relation_id k - 1
RelationTables ==
    {Frame([k \in 1..Len(v) |-> RelationRow(0, 0, k - 1, v[k], Str_s)]) :
        v \in SeqsOf(SentimentValues, 1, Cardinality(RelationIds))}

\* the relations_entities tables over the relation ids of that text
RelationEntityTables(max_rows) ==
    {Frame(rows) :
        rows \in SeqsOf(RelationEntityRows({0}, RelationIds, {Str_a, Str_b}),
                        1, max_rows)}

\* the rating queries of an ABSADataset; the tables without rows are what
\* DatasetLoader.filter leaves of them for another document
InitABSA ==
    /\ absa_ds \in
          {ABSADataset(None, None, rels, ents, None, None) :
              rels \in RelationTables,
              ents \in RelationEntityTables(MaxRelEntities)}
          \cup {ABSADataset(None, None, Frame(<<>>), Frame(<<>>), None, None)}
    /\ loader = NoLoader
    /\ NoConcepts /\ NoCategories /\ NoSentiments /\ NoQuery /\ NoApi

NextABSA ==
    \/ BestRatedEntities
    \/ WorstRatedEntities
    \/ EntitySentiment
    \/ Release

SpecABSA == InitABSA /\ [][NextABSA]_vars

\* one small table of every kind, as a writer lays them out
SampleConcepts ==
    Frame(<<[doc_id |-> 0, text_order |-> 0, concept |-> Str_a, freq |-> 1,
             relevance_score |-> 1, concept_type |-> Str_t],
            [doc_id |-> 1, text_order |-> 0, concept |-> Str_b, freq |-> 2,
             relevance_score |-> 1, concept_type |-> Str_t_u]>>)

SampleSurfaceStrings ==
    Frame(<<[doc_id |-> 0, text_order |-> 0, concept |-> Str_a,
             surface_string |-> Str_s]>>)

SampleCategories ==
    Frame(<<[doc_id |-> 0, text_order |-> 0, category |-> Str_c, probability |-> 75],
            [doc_id |-> 0, text_order |-> 0, category |-> Str_d, probability |-> 25]>>)

SampleSentiments ==
    Frame(<<[doc_id |-> 0, text_order |-> 0, sentiment_value |-> 50]>>)

SampleEntities ==
    Frame(<<[doc_id |-> 0, text_order |-> 0, entity_name |-> Str_a,
             entity_type |-> Str_t],
            [doc_id |-> 0, text_order |-> 0, entity_name |-> Str_b,
             entity_type |-> Str_t_u]>>)

SampleNormalizedTexts ==
    Frame(<<[doc_id |-> 0, text_order |-> 0, normalized_text |-> Str_s]>>)

SampleRelations ==
    Frame(<<RelationRow(0, 0, 0, 2, Str_s), RelationRow(0, 0, 1, 100, Str_S)>>)

SampleRelationsEntities ==
    Frame(<<[doc_id |-> 0, text_order |-> 0, relation_id |-> 0,
             entity_type |-> Str_t, entity_name |-> Str_a],
            [doc_id |-> 0, text_order |-> 0, relation_id |-> 1,
             entity_type |-> Str_t, entity_name |-> Str_b]>>)

\* every dataset with every table absent or present
InitAll ==
    /\ concepts_ds \in
          {ConceptsDataset(c, s) : c \in {None, SampleConcepts},
                                   s \in {None, SampleSurfaceStrings}}
    /\ categories_ds \in {CategoriesDataset(c) : c \in {None, SampleCategories}}
    /\ sentiment_ds \in {SentimentDataset(t) : t \in {None, SampleSentiments}}
    /\ absa_ds \in
          {ABSADataset(e, t, r, re, None, None) :
              e \in {None, SampleEntities},
              t \in {None, SampleNormalizedTexts},
              r \in {None, SampleRelations},
              re \in {None, SampleRelationsEntities}}
    /\ loader = NoLoader
    /\ NoQuery /\ NoApi

NextAll ==
    \/ ConceptFrequency
    \/ MostCommonConcepts
    \/ LeastCommonConcepts
    \/ CoOccurringConcepts
    \/ NltkTextcollection
    \/ MakeIdfFilter
    \/ MakeTimeSeries
    \/ ConceptFrequencies
    \/ FrequencyRelevance
    \/ SurfaceForms
    \/ AggregateCategories
    \/ MainCategory
    \/ AverageSentiment
    \/ EntityFrequency
    \/ MostCommonEntities
    \/ LeastCommonEntities
    \/ CoOccurringEntities
    \/ BestRatedEntities
    \/ WorstRatedEntities
    \/ SurfaceStrings
    \/ EntityTexts
    \/ EntitySentiment
    \/ Release

SpecAll == InitAll /\ [][NextAll]_vars

\* the absa_entities tables of one text about the entities a and b
EntityTables(max_rows) ==
    {Frame(rows) :
        rows \in SeqsOf({r \in EntityRows({0}) : r.entity_name \in {Str_a, Str_b}},
                        1, max_rows)}

\* the normalized text of that text, or of another one
TextTables ==
    {SampleNormalizedTexts,
     Frame(<<[doc_id |-> 1, text_order |-> 0, normalized_text |-> Str_S]>>)}

\* every query of an ABSADataset that takes entity names or an entity_type:
\* either the entity tables vary, or the relations_entities table does
InitEntities ==
    /\ absa_ds \in
          {ABSADataset(e, t, SampleRelations, SampleRelationsEntities, None, None) :
              e \in EntityTables(MaxEntityRows), t \in TextTables}
          \cup
          {ABSADataset(SampleEntities, SampleNormalizedTexts, SampleRelations,
                       re, None, None) :
              re \in RelationEntityTables(MaxRelEntities)}
    /\ loader = NoLoader
    /\ NoConcepts /\ NoCategories /\ NoSentiments /\ NoQuery /\ NoApi

NextEntities ==
    \/ EntityFrequency
    \/ MostCommonEntities
    \/ LeastCommonEntities
    \/ CoOccurringEntities
    \/ BestRatedEntities
    \/ WorstRatedEntities
    \/ SurfaceStrings
    \/ EntityTexts
    \/ Release

SpecEntities == InitEntities /\ [][NextEntities]_vars

SampleEvaluations ==
    Frame(<<[doc_id |-> 1, text_order |-> 0, evaluation_id |-> 0,
             sentiment_value |-> 2, surface_string |-> Str_s]>>)

SampleEvaluationsEntities ==
    Frame(<<[doc_id |-> 1, text_order |-> 0, evaluation_id |-> 0,
             entity_type |-> Str_t, entity_name |-> Str_a]>>)

\* concepts tables over both documents, every row with freq 1 and type t
LoaderConceptTables(max_rows) ==
    {Frame(rows) :
        rows \in SeqsOf({r \in ConceptRows(DocIds, {Str_a, Str_b}) :
                             r.freq = 1 /\ r.concept_type = Str_t},
                        1, max_rows)}

\* the arguments of DatasetLoader(...): every table absent or given, or a
\* concepts table alone of up to MaxLoaderRows rows
LoaderTables ==
    [concepts : {None, SampleConcepts},
     concepts_surface_strings : {None, SampleSurfaceStrings},
     categories : {None, SampleCategories},
     sentiments : {None, SampleSentiments},
     absa_entities : {None, SampleEntities},
     absa_normalized_texts : {None, SampleNormalizedTexts},
     absa_relations : {None, SampleRelations},
     absa_relations_entities : {None, SampleRelationsEntities},
     absa_evaluations : {None, SampleEvaluations},
     absa_evaluations_entities : {None, SampleEvaluationsEntities}]
    \cup
    [concepts : LoaderConceptTables(MaxLoaderRows),
     concepts_surface_strings : {None}, categories : {None},
     sentiments : {None}, absa_entities : {None},
     absa_normalized_texts : {None}, absa_relations : {None},
     absa_relations_entities : {None}, absa_evaluations : {None},
     absa_evaluations_entities : {None}]

\* DatasetLoader(...) called by a caller that holds no loader
NewDatasetLoader ==
    \E t \in LoaderTables :
        /\ loader = NoLoader
        /\ Query([op |-> "DatasetLoader", tables |-> t],
                 DatasetLoader(t.concepts, t.concepts_surface_strings,
                               t.categories, t.sentiments,
                               t.absa_entities, t.absa_normalized_texts,
                               t.absa_relations, t.absa_relations_entities,
                               t.absa_evaluations, t.absa_evaluations_entities))

\* a caller that constructs one DatasetLoader, reads its dataset properties
\* and filters it, keeping the loader that filter returns
InitLoader ==
    /\ loader = NoLoader
    /\ NoConcepts /\ NoAbsa /\ NoCategories /\ NoSentiments /\ NoQuery /\ NoApi

NextLoader ==
    \/ NewDatasetLoader
    \/ KeepLoader
    \/ LoaderConcepts
    \/ LoaderCategories
    \/ LoaderSentiments
    \/ LoaderAbsa
    \/ Filter
    \/ Release

SpecLoader == InitLoader /\ [][NextLoader]_vars

\* the categories tables of one document
CategoryTables(max_rows) ==
    {Frame(rows) : rows \in SeqsOf(CategoryRows({0}), 1, max_rows)}

\* DatasetLoader(categories=t)
CategoriesLoader(t) ==
    DatasetLoader(None, None, t, None, None, None, None, None, None, None).value

\* the queries of a CategoriesDataset that comes from a loader, which can be
\* filtered
InitCategories ==
    /\ \E t \in CategoryTables(MaxCategoryRows) :
          /\ loader = CategoriesLoader(t)
          /\ categories_ds = CategoriesDataset(t)
    /\ NoConcepts /\ NoAbsa /\ NoSentiments /\ NoQuery /\ NoApi

NextCategories ==
    \/ AggregateCategories
    \/ MainCategory
    \/ Filter
    \/ KeepLoader
    \/ LoaderCategories
    \/ KeepDataset
    \/ Release

SpecCategories == InitCategories /\ [][NextCategories]_vars

----------------------------------------------------------------------------
(* What the queries are expected to return, stated on the rows directly *)

RECURSIVE SumOver(_, _)
SumOver(S, f) ==
    IF S = {} THEN 0
    ELSE LET x == CHOOSE x \in S : TRUE IN f[x] + SumOver(S \ {x}, f)

\* the sum of freq over the rows of a table that satisfy P
TotalFreq(rows, P(_)) ==
    SumOver({i \in 1..Len(rows) : P(rows[i])},
            [i \in 1..Len(rows) |-> rows[i].freq])

\* a row passes the concept_type filter: exact match, every row for ''
HasType(r, concept_type) ==
    concept_type = EmptyStr \/ r.concept_type = concept_type

\* the freq total of concept c among the rows of the given type
ConceptTotal(rows, c, concept_type) ==
    TotalFreq(rows, LAMBDA r : r.concept = c /\ HasType(r, concept_type))

\* the concepts that have a row of the given type
ConceptsOfType(rows, concept_type) ==
    {rows[i].concept : i \in {j \in 1..Len(rows) : HasType(rows[j], concept_type)}}

ObservedTypes(rows) == {rows[i].concept_type : i \in 1..Len(rows)}

Rows == concepts_ds.concepts.rows
Values == result.value.values
Returns(op) == call.op = op /\ result.status = "ok"

\* C1: concept_frequency returns for every requested concept the sum of freq
\* over the rows of that concept whose concept_type equals the given one
\* (all rows for ''), and 0, not an absence, for a concept without such a row.
C1_ConceptFrequencySums ==
    Returns("concept_frequency") =>
        \A c \in Range(call.concept.names) :
            /\ \E i \in 1..Len(Values) : Values[i].key = c
            /\ \A i \in 1..Len(Values) :
                  Values[i].key = c =>
                      /\ Values[i].num = ConceptTotal(Rows, c, call.concept_type)
                      /\ call.normalize = FALSE =>
                            Values[i].den = 1 /\ ~Values[i].nan

\* a typed query that sums two rows of one concept and zero-fills another
C1_Witness ==
    /\ Returns("concept_frequency")
    /\ call.concept_type # EmptyStr
    /\ ~call.normalize
    /\ \E i, j \in 1..Len(Values) :
          /\ Values[i].num = 0
          /\ Values[j].num > 1
          /\ Cardinality({k \in 1..Len(Rows) : Rows[k].concept = Values[j].key}) > 1

\* C2: for a list or tuple of names the index of the result of
\* concept_frequency is that sequence, in the caller's order.
C2_OrderPreserved ==
    (Returns("concept_frequency") /\ call.concept.kind = "list") =>
        [i \in 1..Len(Values) |-> Values[i].key] = call.concept.names

\* the caller asks <<later, earlier>> against the order of the rows, and
\* for a concept the table does not have
C2_Witness ==
    /\ Returns("concept_frequency")
    /\ call.concept.kind = "list"
    /\ Len(Rows) = 2
    /\ call.concept.names[1] = Rows[2].concept
    /\ call.concept.names[2] \notin {Rows[1].concept, Rows[2].concept}
    /\ Rows[1].concept # Rows[2].concept

\* the result of most_common_concepts / least_common_concepts is a ranking
\* of the totals of the given type: at most n entries, every entry the total
\* of its concept, in the given direction, no concept left out that ranks
\* strictly before a returned one
IsRanking(values, rows, n, concept_type, descending) ==
    LET Before(x, y) == IF descending THEN x > y ELSE x < y
        returned == {values[i].key : i \in 1..Len(values)}
    IN  /\ Len(values) <= n
        /\ \A i, j \in 1..Len(values) : values[i].key = values[j].key => i = j
        /\ \A i \in 1..Len(values) :
              /\ values[i].key \in ConceptsOfType(rows, concept_type)
              /\ values[i].num = ConceptTotal(rows, values[i].key, concept_type)
        /\ \A i, j \in 1..Len(values) :
              i < j => ~Before(values[j].num, values[i].num)
        /\ \A c \in ConceptsOfType(rows, concept_type) \ returned :
              /\ Len(values) = n
              /\ \A i \in 1..Len(values) :
                    ~Before(ConceptTotal(rows, c, concept_type), values[i].num)

FirstRow(rows, c, concept_type) ==
    CHOOSE i \in 1..Len(rows) :
        /\ rows[i].concept = c /\ HasType(rows[i], concept_type)
        /\ \A j \in 1..(i - 1) :
              ~(rows[j].concept = c /\ HasType(rows[j], concept_type))

\* ties of a ranking are in the order of the first rows of the concepts
TiesByFirstRow(values, rows, concept_type) ==
    LET returned == {values[i].key : i \in 1..Len(values)}
    IN  /\ \A i, j \in 1..Len(values) :
              (i < j /\ values[i].num = values[j].num) =>
                  FirstRow(rows, values[i].key, concept_type)
                      < FirstRow(rows, values[j].key, concept_type)
        /\ \A i \in 1..Len(values) :
           \A c \in ConceptsOfType(rows, concept_type) \ returned :
              ConceptTotal(rows, c, concept_type) = values[i].num =>
                  FirstRow(rows, values[i].key, concept_type)
                      < FirstRow(rows, c, concept_type)

\* C4 as claimed: in most_common_concepts and least_common_concepts concepts
\* of equal total are in first-encountered order, and the earlier one is
\* kept when the tie straddles the cut at n.
C4_TiesFirstEncountered ==
    (Returns("most_common_concepts") \/ Returns("least_common_concepts")) =>
        TiesByFirstRow(Values, Rows, call.concept_type)

\* the rows of a table put in the order p
Permuted(rows, p) == [i \in 1..Len(rows) |-> rows[p[i]]]

Reordered(ds, p) ==
    ConceptsDataset(Frame(Permuted(ds.concepts.rows, p)), ds.surface_strings)

\* C4 as amended: the order of concepts of equal total is fixed by the sort
\* routine from the totals grouped in concept-name order, not by the order
\* of the rows: under one sort routine, most_common_concepts and
\* least_common_concepts return the same result for every reordering of the
\* rows of the table.
C4_TiesIndependentOfRowOrder ==
    /\ Returns("most_common_concepts") =>
          \E tie \in TieOrders(concepts_ds.concepts, Concept) :
              \A p \in PermsOf(Len(Rows)) :
                  most_common_concepts(Reordered(concepts_ds, p), call.n,
                      call.concept_type, call.normalize, tie) = result
    /\ Returns("least_common_concepts") =>
          \E tie \in TieOrders(concepts_ds.concepts, Concept) :
              \A p \in PermsOf(Len(Rows)) :
                  least_common_concepts(Reordered(concepts_ds, p), call.n,
                      call.concept_type, call.normalize, tie) = result

\* two concepts of equal total are returned, the one met later in the table
\* first
C4_Witness ==
    /\ Returns("most_common_concepts")
    /\ Len(Values) = 2
    /\ Values[1].num = Values[2].num
    /\ FirstRow(Rows, Values[1].key, call.concept_type)
          > FirstRow(Rows, Values[2].key, call.concept_type)

\* the index label of a result: the type in capitals, 'Concept' without type
ExpectedLabel(concept_type) ==
    CASE concept_type = EmptyStr -> Str_Concept
      [] concept_type = Str_t -> <<"T">>
      [] concept_type = Str_t_u -> <<"T", "U">>

\* concept occurs in some row, case-insensitively
Occurs(rows, concept) ==
    \E i \in 1..Len(rows) : Lower(rows[i].concept) = Lower(concept)

\* C6: co_occurring_concepts for a concept that occurs (in any case) in no
\* row of the table, with a concept_type the dataset accepts, raises nothing
\* and returns a zero-length result labelled with the capitalised type, or
\* 'Concept' without type.
C6_EmptyCoOccurrence ==
    (/\ call.op = "co_occurring_concepts"
     /\ call.concept_type \in ObservedTypes(Rows) \cup {EmptyStr}
     /\ ~Occurs(Rows, call.concept)) =>
        /\ result.status = "ok"
        /\ Values = <<>>
        /\ result.value.index_name = ExpectedLabel(call.concept_type)

\* a typed co-occurrence query for a concept the non-empty table lacks
C6_Witness ==
    /\ Returns("co_occurring_concepts")
    /\ call.concept_type = Str_t_u
    /\ Len(Rows) > 0
    /\ ~Occurs(Rows, call.concept)
    /\ Values = <<>>

\* the call returns normalized counts of every concept of the filtered rows,
\* each once
NormalizedOverAll ==
    LET all == ConceptsOfType(Rows, call.concept_type)
    IN  \/ /\ Returns("most_common_concepts") \/ Returns("least_common_concepts")
           /\ call.normalize
           /\ call.n >= Cardinality(all)
        \/ /\ Returns("concept_frequency")
           /\ call.normalize
           /\ all \subseteq Range(call.concept.names)
           /\ \A i, j \in 1..Len(call.concept.names) :
                 call.concept.names[i] = call.concept.names[j] => i = j

\* the values, fractions of one denominator, add up to 1
SumIsOne(values) ==
    /\ Len(values) > 0
    /\ \A i \in 1..Len(values) :
          ~values[i].nan /\ values[i].den = values[1].den
    /\ values[1].den > 0
    /\ SumSeq([i \in 1..Len(values) |-> values[i].num]) = values[1].den

\* C7 as claimed: with normalize=True the normalized counts of all concepts
\* of the filtered subset sum to 1.
C7_NormalizedSumIsOne ==
    NormalizedOverAll => SumIsOne(Values)

\* C7 as amended: when at least one row passes the concept_type filter, the
\* normalized counts of all concepts of the filtered subset sum to 1, each
\* being the concept's freq total divided by the total freq of the rows that
\* pass the filter.
C7_NormalizedSumIsOneIfRows ==
    (/\ NormalizedOverAll
     /\ \E i \in 1..Len(Rows) : HasType(Rows[i], call.concept_type)) =>
        /\ SumIsOne(Values)
        /\ \A i \in 1..Len(Values) :
              /\ Values[i].den = TotalFreq(Rows, LAMBDA r : HasType(r, call.concept_type))
              /\ Values[i].num = ConceptTotal(Rows, Values[i].key, call.concept_type)

\* a typed, normalized ranking of two concepts over a total above 1
C7_Witness ==
    /\ Returns("most_common_concepts")
    /\ call.normalize
    /\ call.concept_type # EmptyStr
    /\ Len(Values) = 2
    /\ NormalizedOverAll
    /\ Values[1].den > 2

TypedQueries ==
    {"concept_frequency", "most_common_concepts", "least_common_concepts",
     "co_occurring_concepts", "concept_frequencies", "frequency_relevance",
     "nltk_textcollection"}

TextsOf(rows, concept) ==
    {<<rows[i].doc_id, rows[i].text_order>> :
        i \in {j \in 1..Len(rows) : Lower(rows[j].concept) = Lower(concept)}}

\* the freq of the rows of concept c and of the given type in those texts,
\* every row counted once
CoOccurrenceTotal(rows, c, concept, concept_type) ==
    TotalFreq(rows, LAMBDA r : /\ r.concept = c
                               /\ HasType(r, concept_type)
                               /\ <<r.doc_id, r.text_order>> \in TextsOf(rows, concept))

\* C5: co_occurring_concepts counts for every other concept of the given
\* type the sum of freq over the rows whose (doc_id, text_order) is among the
\* pairs where the queried concept occurs (in any case), each row once, also
\* when the queried concept has several rows in one (doc_id, text_order); the
\* queried concept is not in the result.
C5_CoOccurrenceCounts ==
    Returns("co_occurring_concepts") =>
        /\ \A i \in 1..Len(Values) :
              /\ Lower(Values[i].key) # Lower(call.concept)
              /\ Values[i].num =
                    CoOccurrenceTotal(Rows, Values[i].key, call.concept,
                                      call.concept_type)
        /\ \A i, j \in 1..Len(Values) : Values[i].key = Values[j].key => i = j
        /\ \A i \in 1..Len(Rows) :
              (/\ CoOccurrenceTotal(Rows, Rows[i].concept, call.concept,
                                    call.concept_type) > 0
               /\ Lower(Rows[i].concept) # Lower(call.concept)
               /\ Rows[i].concept \notin {Values[k].key : k \in 1..Len(Values)})
                  => Len(Values) = call.n

\* C5 where the queried concept has one row per (doc_id, text_order)
C5_CoOccurrenceCountsSingle ==
    (/\ Returns("co_occurring_concepts")
     /\ \A i, j \in 1..Len(Rows) :
           (/\ Lower(Rows[i].concept) = Lower(call.concept)
            /\ Lower(Rows[j].concept) = Lower(call.concept)
            /\ Rows[i].doc_id = Rows[j].doc_id
            /\ Rows[i].text_order = Rows[j].text_order) => i = j)
    => C5_CoOccurrenceCounts

\* a dataset whose relations table lost every row with
\* abs(sentiment_value) >= 100
WithoutSentinels(ds) ==
    [ds EXCEPT !.relations =
        IF ds.relations = None THEN None
        ELSE Frame(Select(ds.relations.rows,
                          LAMBDA r : ~(Abs(r.sentiment_value) >= 100)))]

RatingTies == TieOrders(absa_ds.relations_entities, EntityName)

\* C10: a relation row with abs(sentiment_value) >= 100 never influences
\* best_rated_entities, worst_rated_entities or entity_sentiment: each of the
\* three gives on the dataset what it gives on the dataset without those rows.
C10_SentinelsNeverInfluence ==
    /\ call.op = "best_rated_entities" =>
          /\ \A tie \in RatingTies :
                best_rated_entities(absa_ds, call.n, call.entity_type, tie)
                = best_rated_entities(WithoutSentinels(absa_ds), call.n,
                                      call.entity_type, tie)
          /\ \E tie \in RatingTies :
                result = best_rated_entities(WithoutSentinels(absa_ds), call.n,
                                             call.entity_type, tie)
    /\ call.op = "worst_rated_entities" =>
          /\ \A tie \in RatingTies :
                worst_rated_entities(absa_ds, call.n, call.entity_type, tie)
                = worst_rated_entities(WithoutSentinels(absa_ds), call.n,
                                       call.entity_type, tie)
          /\ \E tie \in RatingTies :
                result = worst_rated_entities(WithoutSentinels(absa_ds), call.n,
                                              call.entity_type, tie)
    /\ call.op = "entity_sentiment" =>
          result = entity_sentiment(WithoutSentinels(absa_ds), call.entity)

\* best_rated_entities ranked an entity that has a rated relation and a
\* relation marked with 100
C10_Witness ==
    /\ Returns("best_rated_entities")
    /\ \E i \in 1..Len(Values) :
          /\ Values[i].num = 2 /\ Values[i].den = 1
          /\ \E k, l \in 1..Len(absa_ds.relations.rows),
                e, f \in 1..Len(absa_ds.relations_entities.rows) :
                /\ absa_ds.relations.rows[k].sentiment_value = 100
                /\ absa_ds.relations.rows[l].sentiment_value = 2
                /\ SameRelation(absa_ds.relations.rows[k],
                                absa_ds.relations_entities.rows[e])
                /\ SameRelation(absa_ds.relations.rows[l],
                                absa_ds.relations_entities.rows[f])
                /\ absa_ds.relations_entities.rows[e].entity_name = Values[i].key
                /\ absa_ds.relations_entities.rows[f].entity_name = Values[i].key

\* the tables a query method reads
Needed(op) ==
    CASE op \in {"concept_frequency", "most_common_concepts",
                 "least_common_concepts", "co_occurring_concepts",
                 "nltk_textcollection", "make_idf_filter", "make_time_series",
                 "concept_frequencies", "frequency_relevance"} ->
            {concepts_ds.concepts}
      [] op = "surface_forms" -> {concepts_ds.surface_strings}
      [] op \in {"categories", "main_category"} -> {categories_ds.categories}
      [] op = "average_sentiment" -> {sentiment_ds.sentiments}
      [] op \in {"entity_frequency", "most_common_entities",
                 "least_common_entities", "co_occurring_entities"} ->
            {absa_ds.entities}
      [] op \in {"best_rated_entities", "worst_rated_entities",
                 "surface_strings", "entity_sentiment"} ->
            {absa_ds.relations, absa_ds.relations_entities}
      [] op = "entity_texts" -> {absa_ds.entities, absa_ds.normalized_texts}

\* C9: every query method of every dataset raises NoRelevantData when a
\* table it reads is absent, before any other validation: also a call with an
\* unknown concept_type ends in NoRelevantData, and nothing is returned.
C9_NoRelevantDataFirst ==
    (call.op \notin {"none", "filter"} /\ None \in Needed(call.op)) =>
        /\ result.status = "NoRelevantData"
        /\ result.value = NoValue

\* a query with a concept_type that no row has, on a dataset without
\* concepts table, ended in NoRelevantData
C9_Witness ==
    /\ call.op = "concept_frequency"
    /\ call.concept_type = Str_t
    /\ concepts_ds.concepts = None
    /\ Str_t \notin concepts_ds.concept_filter
    /\ result.status = "NoRelevantData"

----------------------------------------------------------------------------
(* The rating and entity queries of an ABSADataset, stated on the rows *)

Relations == absa_ds.relations.rows
RelationsEntities == absa_ds.relations_entities.rows

\* the pairs (relation row, relations_entities row) in which a non-sentinel
\* relation references entity e through a row of the given type prefix
References(e, entity_type) ==
    {p \in (1..Len(Relations)) \X (1..Len(RelationsEntities)) :
        /\ -100 < Relations[p[1]].sentiment_value
        /\ Relations[p[1]].sentiment_value < 100
        /\ Relations[p[1]].doc_id = RelationsEntities[p[2]].doc_id
        /\ Relations[p[1]].text_order = RelationsEntities[p[2]].text_order
        /\ Relations[p[1]].relation_id = RelationsEntities[p[2]].relation_id
        /\ RelationsEntities[p[2]].entity_name = e
        /\ StartsWith(RelationsEntities[p[2]].entity_type, entity_type)}

\* the sum of sentiment_value over the references of e
ReferenceSum(e, entity_type) ==
    SumOver(References(e, entity_type),
            [p \in References(e, entity_type) |->
                Relations[p[1]].sentiment_value])

\* the entities some non-sentinel relation references
RatedEntities(entity_type) ==
    {e \in EntityNames : References(e, entity_type) # {}}

\* the series holds exactly the rated entities, each once, with the mean of
\* its references
IsRatingOf(values, entity_type) ==
    /\ Len(values) = Cardinality(RatedEntities(entity_type))
    /\ \A e \in RatedEntities(entity_type) :
          \E i \in 1..Len(values) :
              /\ values[i].key = e
              /\ ~values[i].nan
              /\ values[i].num * Cardinality(References(e, entity_type))
                    = ReferenceSum(e, entity_type) * values[i].den

\* no relation is left without a row in relations_entities
EveryRelationJoins ==
    \A i \in 1..Len(Relations) :
        (-100 < Relations[i].sentiment_value /\ Relations[i].sentiment_value < 100)
            => \E j \in 1..Len(RelationsEntities) :
                  SameRelation(Relations[i], RelationsEntities[j])

\* a best/worst rated query that asks for at least as many entities as are rated
AsksForAllRated ==
    /\ call.op \in {"best_rated_entities", "worst_rated_entities"}
    /\ absa_ds.relations # None /\ absa_ds.relations_entities # None
    /\ call.n >= Cardinality(RatedEntities(call.entity_type))

\* best and worst hold the same entity-to-mean mapping, best in non-increasing
\* and worst in non-decreasing order
SameMeansOppositeOrder ==
    /\ result.status = "ok"
    /\ IsRatingOf(Values, call.entity_type)
    /\ \A i, j \in 1..Len(Values) :
          i < j => IF call.op = "best_rated_entities"
                   THEN ~ValLess(Values[i], Values[j])
                   ELSE ~ValLess(Values[j], Values[i])

\* C11: best_rated_entities and worst_rated_entities compute the same
\* per-entity mean over the same join of the non-sentinel relations with
\* absa_relations_entities: on any tables, also when a relation has no row in
\* absa_relations_entities, and for n at least the number of rated entities,
\* both calls succeed and return the same entity-to-mean mapping, best in
\* non-increasing and worst in non-decreasing order.
C11_BestWorstSameMeans ==
    AsksForAllRated => SameMeansOppositeOrder

\* the same when every non-sentinel relation has a row in
\* absa_relations_entities
C11_BestWorstSameMeansWhenJoined ==
    (AsksForAllRated /\ EveryRelationJoins) => SameMeansOppositeOrder

\* C12: entity_sentiment returns one entry per requested entity name, the
\* mean sentiment_value over the references of that entity by non-sentinel
\* relations, or NaN when no such relation references it; for a list or tuple
\* the entries come in input order.
C12_EntitySentimentPerName ==
    Returns("entity_sentiment") =>
        /\ Len(Values) = Len(call.entity.names)
        /\ \A i \in 1..Len(Values) :
              LET e == call.entity.names[i]
              IN  /\ Values[i].key = e
                  /\ Values[i].nan = (References(e, EmptyStr) = {})
                  /\ ~Values[i].nan =>
                        Values[i].num * Cardinality(References(e, EmptyStr))
                            = ReferenceSum(e, EmptyStr) * Values[i].den

\* a list asked for b before a, where b is referenced by a sentinel relation
\* only and a by a rated one
C12_Witness ==
    /\ Returns("entity_sentiment")
    /\ call.entity = [kind |-> "list", names |-> <<Str_b, Str_a>>]
    /\ Values[1].key = Str_b /\ Values[1].nan
    /\ \E i \in 1..Len(Relations), j \in 1..Len(RelationsEntities) :
          /\ Abs(Relations[i].sentiment_value) = SentinelLimit
          /\ SameRelation(Relations[i], RelationsEntities[j])
          /\ RelationsEntities[j].entity_name = Str_b
    /\ Values[2].key = Str_a /\ ~Values[2].nan
    /\ References(Str_a, EmptyStr) # {}

Entities == absa_ds.entities.rows
NormalizedTexts == absa_ds.normalized_texts.rows

\* the surface strings of the relations that reference entity e, or the
\* normalized texts of the texts that mention it: what a requested entity
\* matches in the tables the query reads
Matches(op, e) ==
    IF op = "surface_strings"
    THEN {p \in (1..Len(Relations)) \X (1..Len(RelationsEntities)) :
            /\ SameRelation(Relations[p[1]], RelationsEntities[p[2]])
            /\ RelationsEntities[p[2]].entity_name = e}
    ELSE {p \in (1..Len(Entities)) \X (1..Len(NormalizedTexts)) :
            /\ Entities[p[1]].doc_id = NormalizedTexts[p[2]].doc_id
            /\ Entities[p[1]].text_order = NormalizedTexts[p[2]].text_order
            /\ Entities[p[1]].entity_name = e}

\* C13: the mapping returned by surface_strings and by entity_texts has
\* exactly the requested entity names as keys: an entity that matches nothing
\* maps to the empty list, and no entity that was not requested appears.
C13_KeysAreRequested ==
    (call.op \in {"surface_strings", "entity_texts"} /\ result.status = "ok") =>
        /\ DOMAIN result.value.dict = Range(call.entity.names)
        /\ \A e \in Range(call.entity.names) :
              (Matches(call.op, e) = {}) = (result.value.dict[e] = <<>>)

\* b and a were requested from tables that hold rows of both and in which
\* only a matches, or a alone from tables that also hold b
C13_Witness ==
    /\ call.op \in {"surface_strings", "entity_texts"}
    /\ result.status = "ok"
    /\ \/ /\ call.entity.names = <<Str_b, Str_a>>
          /\ result.value.dict[Str_b] = <<>>
          /\ result.value.dict[Str_a] # <<>>
       \/ /\ call.entity.names = <<Str_a>>
          /\ Matches(call.op, Str_b) # {}

\* the absa_entities rows of entity e whose entity_type starts with the prefix
EntityRowsOf(e, entity_type) ==
    {j \in 1..Len(Entities) :
        /\ Entities[j].entity_name = e
        /\ StartsWith(Entities[j].entity_type, entity_type)}

\* C14: entity_frequency(entity, entity_type) returns for each requested name
\* the number of absa_entities rows with that entity_name whose entity_type
\* starts with the given prefix (every row for ''), 0 when there is no such
\* row; for a list or tuple the entries come in input order.
C14_EntityFrequencyCounts ==
    (Returns("entity_frequency") /\ ~call.normalize) =>
        /\ Len(Values) = Len(call.entity.names)
        /\ \A i \in 1..Len(Values) :
              /\ Values[i].key = call.entity.names[i]
              /\ ~Values[i].nan
              /\ Values[i].den = 1
              /\ Values[i].num =
                    Cardinality(EntityRowsOf(call.entity.names[i], call.entity_type))

\* the list A, a asked with prefix t: no row for A, and a counted twice
\* through a row of type t and a row of a longer type
C14_Witness ==
    /\ Returns("entity_frequency")
    /\ ~call.normalize
    /\ call.entity = [kind |-> "list", names |-> <<Str_A, Str_a>>]
    /\ call.entity_type = Str_t
    /\ Values[1].num = 0
    /\ Values[2].num = 2
    /\ \E j \in 1..Len(Entities) : Entities[j].entity_type = Str_t_u

EntityQueries ==
    {"entity_frequency", "most_common_entities", "least_common_entities",
     "co_occurring_entities"}

RatingQueries == {"best_rated_entities", "worst_rated_entities"}

\* the query takes an entity_type, its tables are present, and the
\* entity_type is unknown: not the empty string, and the prefix of the
\* entity_type of no row of the table the query filters
UnknownEntityType ==
    /\ call.op \in EntityQueries \cup RatingQueries
    /\ call.entity_type # EmptyStr
    /\ IF call.op \in EntityQueries
       THEN /\ absa_ds.entities # None
            /\ \A j \in 1..Len(Entities) :
                  ~StartsWith(Entities[j].entity_type, call.entity_type)
       ELSE /\ absa_ds.relations # None /\ absa_ds.relations_entities # None
            /\ \A j \in 1..Len(RelationsEntities) :
                  ~StartsWith(RelationsEntities[j].entity_type, call.entity_type)

\* C15 as stated: an unknown entity_type passed to entity_frequency,
\* most_common_entities, least_common_entities, co_occurring_entities,
\* best_rated_entities or worst_rated_entities is rejected with ValueError
\* (the InvalidArgument of the specification) and no result is produced.
C15_UnknownEntityTypeRejected ==
    UnknownEntityType =>
        /\ result.status = "ValueError"
        /\ result.value = NoValue

\* C15: an unknown entity_type is not rejected.  It is applied as a prefix
\* filter that no row passes: entity_frequency returns 0 for every requested
\* entity, most_common_entities, least_common_entities, co_occurring_entities
\* and best_rated_entities return an empty result, and worst_rated_entities
\* returns an empty result unless a non-sentinel relation has no row in
\* absa_relations_entities, in which case it fails as for any entity_type.
C15_UnknownEntityTypeMatchesNothing ==
    UnknownEntityType =>
        CASE call.op = "entity_frequency" ->
                /\ result.status = "ok"
                /\ Len(Values) = Len(call.entity.names)
                /\ \A i \in 1..Len(Values) :
                      /\ Values[i].key = call.entity.names[i]
                      /\ Values[i].num = 0 /\ ~Values[i].nan
          [] call.op = "worst_rated_entities" ->
                IF EveryRelationJoins
                THEN result.status = "ok" /\ Values = <<>>
                ELSE result = PandasError
          [] OTHER ->
                result.status = "ok" /\ Values = <<>>

\* entity_frequency with the type t_u on a table whose rows all have the
\* type t: the requested entity has a row and is counted 0
C15_Witness ==
    /\ Returns("entity_frequency")
    /\ UnknownEntityType
    /\ call.entity_type = Str_t_u
    /\ EntityRowsOf(call.entity.names[1], EmptyStr) # {}
    /\ Values[1].num = 0

----------------------------------------------------------------------------
(* DatasetLoader: construction, availability and filter *)

TableNames ==
    {"concepts", "concepts_surface_strings", "categories", "sentiments",
     "absa_entities", "absa_normalized_texts", "absa_relations",
     "absa_relations_entities", "absa_evaluations", "absa_evaluations_entities"}

AbsaTableNames ==
    {"absa_entities", "absa_normalized_texts", "absa_relations",
     "absa_relations_entities", "absa_evaluations", "absa_evaluations_entities"}

\* the tables of a record of ten tables that are present
Present(tables) == {n \in TableNames : tables[n] # None}

\* C16: constructing a DatasetLoader with none of the ten tables present
\* fails with ValueError (the ConfigurationError of the specification) and
\* yields no loader; with at least one table present construction succeeds,
\* and the loader holds the tables given.
C16_NoDataNoLoader ==
    /\ call.op = "DatasetLoader" =>
          IF Present(call.tables) = {}
          THEN result.status = "ValueError" /\ result.value = NoValue
          ELSE /\ result.status = "ok"
               /\ \A n \in TableNames : result.value[n] = call.tables[n]
    /\ loader # NoLoader => Present(loader) # {}

\* a construction without any table has failed and the caller holds no loader
C16_Witness ==
    /\ call.op = "DatasetLoader"
    /\ Present(call.tables) = {}
    /\ result.status = "ValueError"
    /\ loader = NoLoader

\* a dataset property of the loader raises NoRelevantData exactly when none
\* of the given tables of the loader is present, and returns a dataset
\* otherwise
RaisesIffAbsent(op, names) ==
    call.op = op =>
        /\ result.status \in {"NoRelevantData", "ok"}
        /\ (result.status = "NoRelevantData") = (Present(loader) \cap names = {})
        /\ result.status = "NoRelevantData" => result.value = NoValue

IsRestriction(new, old, ids) ==
    LET kept == {j \in 1..Len(old) : old[j].doc_id \in ids}
    IN  /\ Len(new) = Cardinality(kept)
        /\ \E f \in [1..Len(new) -> kept] :
              /\ \A i, k \in 1..Len(new) : i < k => f[i] < f[k]
              /\ \A i \in 1..Len(new) : new[i] = old[f[i]]

\* C18: for a non-empty set of document ids, filter returns a new loader in
\* which every present table holds exactly the rows of the source table whose
\* doc_id is in the set, in their original relative order, and every absent
\* table stays absent.
C18_FilterRestrictsEveryTable ==
    (call.op = "filter" /\ call.document_ids # {}) =>
        /\ result.status = "ok"
        /\ \A n \in TableNames :
              IF loader[n] = None
              THEN result.value[n] = None
              ELSE /\ result.value[n].present
                   /\ IsRestriction(result.value[n].rows, loader[n].rows,
                                    call.document_ids)

\* a concepts table of three rows lost its middle row and kept the two
\* others, which differ, in their order; the categories table stayed absent
C18_Witness ==
    /\ Returns("filter")
    /\ Len(loader.concepts.rows) = 3
    /\ loader.concepts.rows[2].doc_id \notin call.document_ids
    /\ loader.concepts.rows[1] # loader.concepts.rows[3]
    /\ result.value.concepts.rows =
          <<loader.concepts.rows[1], loader.concepts.rows[3]>>
    /\ loader.categories = None /\ result.value.categories = None

\* filter is called with an empty collection of document ids
EmptyFilterCall ==
    /\ call.op = "none"
    /\ call'.op = "filter"
    /\ call'.document_ids = {}

\* C19: filter called with an empty collection of document ids fails with
\* ValueError (the InvalidArgument of the specification) whatever the tables
\* hold, returns no loader and leaves the source loader unchanged.
C19_EmptyFilterFails ==
    [][EmptyFilterCall =>
          /\ result' = ValueError("Can't use empty filter")
          /\ result'.value = NoValue
          /\ loader' = loader]_vars

\* a loader with tables was filtered with no id and the call failed
C19_Witness ==
    /\ call.op = "filter"
    /\ call.document_ids = {}
    /\ result.status = "ValueError"
    /\ Present(loader) # {}

Flags == {"has_categories", "has_concepts", "has_sentiments", "has_absa"}

\* C20: filtering is idempotent: for every loader and every non-empty id
\* set, loader.filter(ids).filter(ids) has the same availability flags and,
\* table by table, the same rows as loader.filter(ids).
C20_FilterIdempotent ==
    Returns("filter") =>
        LET once == result.value
            twice == filter(once, call.document_ids)
        IN  /\ twice.status = "ok"
            /\ \A f \in Flags : twice.value[f] = once[f]
            /\ \A n \in TableNames : twice.value[n] = once[n]

\* the first filter removed rows of the concepts table and left some, and
\* emptied another table
C20_Witness ==
    /\ Returns("filter")
    /\ result.value.concepts.rows # <<>>
    /\ Len(result.value.concepts.rows) < Len(loader.concepts.rows)
    /\ \E n \in TableNames :
          /\ loader[n].rows # <<>>
          /\ result.value[n].present /\ result.value[n].rows = <<>>

----------------------------------------------------------------------------
(* CategoriesDataset *)

CategoryTable == categories_ds.categories.rows

\* the rows of category c
RowsOfCategory(c) == {i \in 1..Len(CategoryTable) : CategoryTable[i].category = c}

\* the sum of probability over the rows of category c
ProbabilitySum(c) ==
    SumOver(RowsOfCategory(c),
            [i \in RowsOfCategory(c) |-> CategoryTable[i].probability])

\* the series holds every category of the table once, with the mean of its
\* probabilities, in non-increasing order
IsCategoryRanking(values) ==
    /\ Len(values) = Cardinality({c \in CategoryNames : RowsOfCategory(c) # {}})
    /\ \A c \in CategoryNames :
          RowsOfCategory(c) # {} =>
              \E i \in 1..Len(values) :
                  /\ values[i].key = c
                  /\ ~values[i].nan
                  /\ values[i].num * Cardinality(RowsOfCategory(c))
                        = ProbabilitySum(c) * values[i].den
    /\ \A i, j \in 1..Len(values) : i < j => ~ValLess(values[i], values[j])

\* the first row of categories() when the sort leaves equal means in the
\* order it has left them in this call
FirstOfCategories == categories(categories_ds, call.tie).value.values[1].key

\* C21 as stated: for every categories table that is present, categories()
\* returns the mean probability of each category in non-increasing order, and
\* main_category() returns the category in the first row of categories().
C21_MainCategoryOfEveryTable ==
    /\ (call.op = "categories" /\ categories_ds.categories # None) =>
          result.status = "ok" /\ IsCategoryRanking(Values)
    /\ (call.op = "main_category" /\ categories_ds.categories # None) =>
          /\ result.status = "ok"
          /\ result.value.category = FirstOfCategories

\* C21: for every categories table that is present, categories() returns the
\* mean probability of each category in non-increasing order; when the table
\* has a row, main_category() returns the category in the first row of
\* categories(), and when it has none (a table emptied by filter)
\* categories() is empty and main_category() fails with IndexError.
C21_MainCategoryOfNonEmptyTable ==
    /\ (call.op = "categories" /\ categories_ds.categories # None) =>
          result.status = "ok" /\ IsCategoryRanking(Values)
    /\ (call.op = "main_category" /\ categories_ds.categories # None) =>
          IF CategoryTable = <<>>
          THEN result = IndexError
          ELSE /\ result.status = "ok"
               /\ result.value.category = FirstOfCategories
               /\ \A c \in CategoryNames :
                     RowsOfCategory(c) # {} =>
                         ProbabilitySum(c) * Cardinality(RowsOfCategory(result.value.category))
                            <= ProbabilitySum(result.value.category)
                                  * Cardinality(RowsOfCategory(c))

\* main_category returned d, whose mean is above that of c, from a table
\* that lists c first
C21_Witness ==
    /\ Returns("main_category")
    /\ Len(CategoryTable) = 2
    /\ CategoryTable[1].category = Str_c
    /\ CategoryTable[1].probability = 25
    /\ CategoryTable[2].probability = 75
    /\ result.value.category = Str_d

----------------------------------------------------------------------------
(* Result tags and plotting.plot *)

\* plotting.plot: the chart is chosen by the tag of the aggregation
plot(aggregation) ==
    IF aggregation.plot_id = NoPlotId
    THEN ValueError("Aggregation needs to be pd.Series result from aggregation library!")
    ELSE Returned(CASE aggregation.plot_id = "AGGREGATED_CATEGORIES" -> "piechart"
                    [] aggregation.plot_id = "CONCEPT_CLOUD" -> "concept_cloud"
                    [] OTHER -> "barhchart")

\* the aggregation methods that return a Series
SeriesQueries ==
    {"concept_frequency", "most_common_concepts", "least_common_concepts",
     "co_occurring_concepts", "concept_frequencies", "frequency_relevance",
     "categories", "entity_frequency", "most_common_entities",
     "least_common_entities", "co_occurring_entities", "best_rated_entities",
     "worst_rated_entities", "entity_sentiment"}

\* C22: every Series returned by an aggregation method carries its kind tag
\* (_plot_id) and an index label, for every combination of arguments, so
\* plotting.plot accepts it.
C22_EveryResultTagged ==
    (call.op \in SeriesQueries /\ result.status = "ok") =>
        /\ result.value.plot_id # NoPlotId
        /\ result.value.index_name # EmptyStr
        /\ plot(result.value).status = "ok"

\* outside most_common_concepts and least_common_concepts with
\* normalize=True and the empty results of co_occurring_entities, every
\* Series returned carries its tag and an index label
C22_TaggedElsewhere ==
    (/\ call.op \in SeriesQueries
     /\ result.status = "ok"
     /\ ~(call.op \in {"most_common_concepts", "least_common_concepts"}
            /\ call.normalize)
     /\ ~(call.op = "co_occurring_entities" /\ Values = <<>>)) =>
        /\ result.value.plot_id # NoPlotId
        /\ result.value.index_name # EmptyStr
        /\ plot(result.value).status = "ok"

----------------------------------------------------------------------------
(* ConceptsDataset.make_time_series *)

\* the buckets [start + i * delta, start + (i + 1) * delta) that begin
\* before stop
Buckets(start, stop, delta) ==
    {i \in 0..(IF stop > start THEN stop - start ELSE 0) : start + i * delta < stop}

\* the sum of freq over the rows of concept c whose document date lies in
\* [from, to)
FreqInBucket(c, date_info, from, to) ==
    LET hits == {k \in 1..Len(Rows) : /\ Rows[k].concept = c
                                      /\ date_info[Rows[k].doc_id] >= from
                                      /\ date_info[Rows[k].doc_id] < to}
    IN  SumOver(hits, [k \in hits |-> Rows[k].freq])

\* the frame holds exactly one row per requested concept and bucket, with
\* the sum of freq of the bucket as count
IsTimeSeries(frame, concepts, date_info, delta, interval) ==
    LET buckets == Buckets(interval.start, interval.stop, delta)
    IN  /\ Len(frame) = Len(concepts) * Cardinality(buckets)
        /\ \A k \in 1..Len(concepts), i \in buckets :
              \E r \in 1..Len(frame) :
                  frame[r] = [Concept |-> concepts[k],
                              Start |-> interval.start + i * delta,
                              Stop |-> interval.start + (i + 1) * delta,
                              Count |-> FreqInBucket(concepts[k], date_info,
                                                     interval.start + i * delta,
                                                     interval.start + (i + 1) * delta)]

TimeSeriesCall ==
    /\ call.op = "make_time_series"
    /\ call.interval.given
    /\ concepts_ds.concepts # None

\* C23: for a positive delta and an interval (start, stop), make_time_series
\* terminates and returns exactly one row per requested concept and per
\* bucket [start + i*delta, start + (i+1)*delta), for i from 0 up to the last
\* bucket that begins before stop; the count of a row is the sum of freq over
\* the rows of that concept whose document date lies in the bucket, and
\* buckets without occurrences are present with count 0.
C23_TimeSeriesRows ==
    TimeSeriesCall =>
        /\ result.status = "ok"
        /\ IsTimeSeries(result.value.frame, call.concepts, call.date_info,
                        call.delta, call.interval)

\* with at least one requested concept and start < stop the frame is the
\* claimed one; with no concept or no bucket the call ends in the ValueError
\* of pd.concat
C23_TimeSeriesRowsWhenAny ==
    TimeSeriesCall =>
        IF call.concepts # <<>> /\ call.interval.start < call.interval.stop
        THEN /\ result.status = "ok"
             /\ IsTimeSeries(result.value.frame, call.concepts, call.date_info,
                             call.delta, call.interval)
        ELSE result.status = "ValueError"

\* a series with a counted bucket and an empty one
C23_Reached ==
    /\ TimeSeriesCall
    /\ result.status = "ok"
    /\ \E r, s \in 1..Len(result.value.frame) :
          /\ result.value.frame[r].Count > 0
          /\ result.value.frame[s].Count = 0
          /\ result.value.frame[s].Concept = result.value.frame[r].Concept

----------------------------------------------------------------------------
(* DatasetLoader.filter and availability *)

\* two loaders have the same availability flags and the same present tables
SameAvailability(new, old) ==
    /\ \A f \in Flags : new[f] = old[f]
    /\ Present(new) = Present(old)

\* C29: filter preserves availability: for every loader and every non-empty
\* id set, also one that matches no row, filter succeeds and the returned
\* loader has the same has_categories, has_concepts, has_sentiments and
\* has_absa flags and the same set of present tables as the source; the
\* loader kept after a filter call, and so after any chain of them, has the
\* flags of the loader before it.
C29_FilterPreservesAvailability ==
    [][/\ (call'.op = "filter" /\ call'.document_ids # {}) =>
              /\ result'.status = "ok"
              /\ SameAvailability(result'.value, loader)
       /\ (loader # NoLoader /\ loader' # NoLoader) =>
              SameAvailability(loader', loader)]_vars

\* a loader with a table emptied by an earlier filter is filtered again, with
\* ids that match no row of any table
C29_Witness ==
    /\ Returns("filter")
    /\ \E n \in TableNames : loader[n].present /\ loader[n].rows = <<>>
    /\ \E n \in TableNames : loader[n].rows # <<>>
    /\ \A n \in TableNames : result.value[n].rows = <<>>

----------------------------------------------------------------------------
(* Writers: flattening analysis results into the ten tables *)

MaxTexts == 2         \* texts of one analysis result
MaxWrites == 2        \* write_analysis calls on one writer
MaxInits == 1         \* init calls on one writer
MaxScrapes == 1       \* write_scrape calls on one writer

AnalysisNames == {"categories", "concepts", "sentiment", "absa"}

\* the analysis of one text: items is the number of labels, concepts,
\* entities, relations and evaluations found in it, content what the rows
\* made of it carry in their value columns
TextAnalyses(contents) == [items : 0..1, content : contents]

\* a row of a table: the two leading columns and the value columns
DocRow(doc_id, order, single_document, content) ==
    [doc_id |-> IF single_document THEN doc_id ELSE doc_id + order,
     text_order |-> IF single_document THEN order ELSE 0,
     content |-> content]

\* the rows of a loop over enumerate(analyzed) with an inner loop over the
\* items of each text
ItemRows(doc_id, analyzed, single_document) ==
    Chain([i \in 1..Len(analyzed) |->
              Repeat(DocRow(doc_id, i - 1, single_document, analyzed[i].content),
                     analyzed[i].items)])

\* the rows of a loop over enumerate(analyzed) that makes one row per text
TextRows(doc_id, analyzed, single_document) ==
    [i \in 1..Len(analyzed) |->
        DocRow(doc_id, i - 1, single_document, analyzed[i].content)]

categories_to_list(doc_id, analyzed, single_document) ==
    [categories |-> ItemRows(doc_id, analyzed, single_document)]

\* every concept comes with one surface string
concepts_to_list(doc_id, analyzed, single_document) ==
    [concepts |-> ItemRows(doc_id, analyzed, single_document),
     concepts_surface_strings |-> ItemRows(doc_id, analyzed, single_document)]

sentiments_to_list(doc_id, analyzed, single_document) ==
    [sentiments |-> TextRows(doc_id, analyzed, single_document)]

\* every entity has one semantics entry, every relation and evaluation one
\* entity
absa_to_list(doc_id, analyzed, single_document) ==
    [absa_entities |-> ItemRows(doc_id, analyzed, single_document),
     absa_normalized_texts |-> TextRows(doc_id, analyzed, single_document),
     absa_relations |-> ItemRows(doc_id, analyzed, single_document),
     absa_relations_entities |-> ItemRows(doc_id, analyzed, single_document),
     absa_evaluations |-> ItemRows(doc_id, analyzed, single_document),
     absa_evaluations_entities |-> ItemRows(doc_id, analyzed, single_document)]

WriterTables ==
    {"concepts", "concepts_surface_strings", "categories", "sentiments",
     "absa_entities", "absa_normalized_texts", "absa_relations",
     "absa_relations_entities", "absa_evaluations", "absa_evaluations_entities"}

\* a csv file that does not exist, and the header line of one that does (the
\* column names, a line that is no row of any analysis)
NoFile == <<>>
Header == [doc_id |-> -1, text_order |-> -1, content |-> <<0, 0>>]

\* Writer.__init__ followed by DataFrameWriter.__init__ or CSVWriter.__init__
\* on an empty target directory; inits counts the init calls and written
\* lists the analysis results handed to write_analysis
NewWriter(kind) ==
    [kind |-> kind,
     ids |-> [scrape |-> 0, analyze |-> 0],
     open |-> FALSE,
     row_data |-> [n \in WriterTables |-> <<>>],
     frames |-> [n \in WriterTables |-> None],
     files |-> [n \in WriterTables |-> NoFile],
     inits |-> 0,
     written |-> <<>>]

\* _add_new_data_from_dict: DataFrameWriter extends its row lists, CSVWriter
\* writes the rows to its open files
AddNewData(self, new_data) ==
    IF self.kind = "DataFrameWriter"
    THEN [self EXCEPT !.row_data =
            [n \in WriterTables |->
                IF n \in DOMAIN new_data THEN @[n] \o new_data[n] ELSE @[n]]]
    ELSE [self EXCEPT !.files =
            [n \in WriterTables |->
                IF n \in DOMAIN new_data THEN @[n] \o new_data[n] ELSE @[n]]]

\* the doc_id counter does not move by the number of documents of the result
AnalyzedLength_one(analyzed) == 1

\* analyzed_length of write_analysis: 1 for a single document, else the
\* length of the last analysis present
AnalyzedLength(analyzed) ==
    IF analyzed.single_document \/ analyzed.analyses = {} THEN 1
    ELSE Len(analyzed.texts)

\* Writer.write_analysis; every write_* reads the same self.ids['analyze']
write_analysis(self, analyzed) ==
    LET doc_id == self.ids.analyze
        single_document == analyzed.single_document
        w1 == IF "categories" \in analyzed.analyses
              THEN AddNewData(self, categories_to_list(doc_id, analyzed.texts,
                                                       single_document))
              ELSE self
        w2 == IF "concepts" \in analyzed.analyses
              THEN AddNewData(w1, concepts_to_list(doc_id, analyzed.texts,
                                                   single_document))
              ELSE w1
        w3 == IF "sentiment" \in analyzed.analyses
              THEN AddNewData(w2, sentiments_to_list(doc_id, analyzed.texts,
                                                     single_document))
              ELSE w2
        w4 == IF "absa" \in analyzed.analyses
              THEN AddNewData(w3, absa_to_list(doc_id, analyzed.texts,
                                               single_document))
              ELSE w3
    IN  [w4 EXCEPT !.ids.analyze = @ + AnalyzedLength(analyzed)]

\* a file with a header line only is kept
CsvHasContent_always(file) == file # NoFile

\* CSVWriter._csv_has_content: the file exists and has a second line
CsvHasContent(file) == file # NoFile /\ Len(file) >= 2

\* every list of rows becomes a frame, also an empty one
DataFrameWriter_close_all(self) ==
    [self EXCEPT !.frames = [n \in WriterTables |-> Frame(self.row_data[n])],
                 !.row_data = [n \in WriterTables |-> <<>>],
                 !.open = FALSE]

\* DataFrameWriter.close: the non-empty row lists become frames
DataFrameWriter_close(self) ==
    [self EXCEPT !.frames = [n \in WriterTables |->
                                IF Len(self.row_data[n]) > 0
                                THEN Frame(self.row_data[n]) ELSE @[n]],
                 !.row_data = [n \in WriterTables |-> <<>>],
                 !.open = FALSE]

\* CSVWriter.close: the files are closed and those without content removed
CSVWriter_close(self) ==
    [self EXCEPT !.files = [n \in WriterTables |->
                               IF @[n] # NoFile /\ ~CsvHasContent(@[n])
                               THEN NoFile ELSE @[n]],
                 !.open = FALSE]

\* close of the writer's class
close(self) ==
    IF self.kind = "DataFrameWriter" THEN DataFrameWriter_close(self)
    ELSE CSVWriter_close(self)

\* DataFrameWriter.init
DataFrameWriter_init(self) ==
    [self EXCEPT !.row_data = [n \in WriterTables |-> <<>>], !.open = TRUE]

\* CSVWriter.init: close, back the csv files up under another name, open
\* every file anew and write its header
CSVWriter_init(self) ==
    [CSVWriter_close(self) EXCEPT !.files = [n \in WriterTables |-> <<Header>>],
                                  !.open = TRUE]

\* init of the writer's class
init(self) ==
    IF self.kind = "DataFrameWriter" THEN DataFrameWriter_init(self)
    ELSE CSVWriter_init(self)

\* DatasetLoader(**kwargs) for a record of ten tables
LoaderOf(t) ==
    DatasetLoader(t.concepts, t.concepts_surface_strings, t.categories,
                  t.sentiments, t.absa_entities, t.absa_normalized_texts,
                  t.absa_relations, t.absa_relations_entities,
                  t.absa_evaluations, t.absa_evaluations_entities)

\* pd.read_csv: the lines after the header
ReadCsv(file) == Frame(Tail(file))

\* DatasetLoader.from_path on the target directory
from_path(files) ==
    IF \A n \in WriterTables : files[n] = NoFile
    THEN ValueError("No relevant csv files")
    ELSE LoaderOf([n \in WriterTables |->
                      IF files[n] # NoFile THEN ReadCsv(files[n]) ELSE None])

\* DatasetLoader.from_writer
from_writer(w) ==
    IF w.kind = "CSVWriter" THEN from_path(w.files) ELSE LoaderOf(w.frames)

\* the analyses a caller asks for: each alone, two together, all four
AnalysisSets ==
    {{"categories"}, {"concepts"}, {"sentiment"}, {"absa"},
     {"categories", "sentiment"}, AnalysisNames}

\* the analysis results the service returns for the n-th analyze call: every
\* text analysis carries the number of the call and its position
AnalysisResults(n) ==
    {[single_document |-> s, analyses |-> a,
      texts |-> [i \in 1..k |-> [items |-> items[i], content |-> <<n, i>>]]] :
        s \in BOOLEAN, a \in AnalysisSets,
        k \in 1..MaxTexts, items \in [1..MaxTexts -> 0..1]}

WriterInit ==
    /\ call = NoCall
    /\ writer # NoWriter
    /\ writer.inits < MaxInits
    /\ writer' = [init(writer) EXCEPT !.inits = @ + 1]
    /\ UNCHANGED <<loader, concepts_ds, absa_ds, categories_ds, sentiment_ds,
                   call, result, analyzer, request>>

\* write_analysis on a writer that is open; on one that is not, the first
\* _add_new_data_from_dict raises KeyError and the writer stays as it was
WriteAnalysis ==
    /\ call = NoCall
    /\ writer # NoWriter
    /\ writer.open
    /\ Len(writer.written) < MaxWrites
    /\ \E analyzed \in AnalysisResults(Len(writer.written) + 1) :
          writer' = [write_analysis(writer, analyzed) EXCEPT
                        !.written = Append(@, analyzed)]
    /\ UNCHANGED <<loader, concepts_ds, absa_ds, categories_ds, sentiment_ds,
                   call, result, analyzer, request>>

\* Writer.write_scrape
WriteScrape ==
    /\ call = NoCall
    /\ writer # NoWriter
    /\ writer.ids.scrape < MaxScrapes
    /\ writer' = [writer EXCEPT !.ids.scrape = @ + 1]
    /\ UNCHANGED <<loader, concepts_ds, absa_ds, categories_ds, sentiment_ds,
                   call, result, analyzer, request>>

WriterClose ==
    /\ call = NoCall
    /\ writer # NoWriter
    /\ writer' = close(writer)
    /\ UNCHANGED <<loader, concepts_ds, absa_ds, categories_ds, sentiment_ds,
                   call, result, analyzer, request>>

\* DatasetLoader.from_writer on a writer that is closed
FromWriter ==
    /\ writer # NoWriter
    /\ ~writer.open
    /\ Query([op |-> "from_writer"], from_writer(writer))

InitWriter ==
    /\ \E kind \in {"DataFrameWriter", "CSVWriter"} : writer = NewWriter(kind)
    /\ analyzer = NoAnalyzer /\ request = NoRequest
    /\ loader = NoLoader
    /\ NoConcepts /\ NoAbsa /\ NoCategories /\ NoSentiments /\ NoQuery

NextWriter ==
    \/ WriterInit
    \/ WriteAnalysis
    \/ WriteScrape
    \/ WriterClose
    \/ FromWriter
    \/ Release

SpecWriter == InitWriter /\ [][NextWriter]_vars

----------------------------------------------------------------------------
(* Writer.write_analysis: document ids *)

\* the rows the writer holds in table n: in its row lists, its frames or its
\* csv files
StoredRows(n) ==
    Range(writer.row_data[n]) \cup Range(writer.frames[n].rows)
        \cup (Range(writer.files[n]) \ {Header})

AllStoredRows == UNION {StoredRows(n) : n \in WriterTables}

\* the input document a row comes from: the analysis result, and the text
\* position unless the result is a single document
DocumentOf(row) ==
    IF writer.written[row.content[1]].single_document
    THEN <<row.content[1], 0>>
    ELSE row.content

\* the number of documents of the analysis results written
DocumentsWritten ==
    SumOver(DOMAIN writer.written,
            [k \in DOMAIN writer.written |->
                IF writer.written[k].single_document THEN 1
                ELSE Len(writer.written[k].texts)])

----------------------------------------------------------------------------
(* Writers: the tables left after close *)

\* the analysis that fills table n
AnalysisOf(n) ==
    CASE n = "categories" -> "categories"
      [] n \in {"concepts", "concepts_surface_strings"} -> "concepts"
      [] n = "sentiments" -> "sentiment"
      [] OTHER -> "absa"

\* the tables that get a row for every text
PerTextTables == {"sentiments", "absa_normalized_texts"}

\* the tables to which at least one row was written
Received ==
    {n \in WriterTables :
        \E k \in DOMAIN writer.written :
            /\ AnalysisOf(n) \in writer.written[k].analyses
            /\ \/ n \in PerTextTables
               \/ \E i \in DOMAIN writer.written[k].texts :
                     writer.written[k].texts[i].items > 0}

\* the tables of the writer's output: the csv files of the target
\* directory, or the frames
OutputTables ==
    IF writer.kind = "CSVWriter"
    THEN {n \in WriterTables : writer.files[n] # NoFile}
    ELSE {n \in WriterTables : writer.frames[n] # None}

\* the writer was initialised once and is closed
ClosedAfterInit == writer # NoWriter /\ writer.inits = 1 /\ ~writer.open

\* C28: after init, any sequence of writes and close, a table is present in
\* the writer's output iff at least one row was written to it: CSVWriter
\* leaves a csv file exactly for the tables that received a row,
\* DataFrameWriter.frames gains exactly those tables, and
\* DatasetLoader.from_writer sees exactly those tables, so the same set for
\* both writers given the same writes (it fails with ValueError when there
\* is none).
C28_OutputIffRowWritten ==
    ClosedAfterInit =>
        /\ OutputTables = Received
        /\ call.op = "from_writer" =>
              IF Received = {}
              THEN result.status = "ValueError"
              ELSE /\ result.status = "ok"
                   /\ Present(result.value) = Received
                   /\ \A n \in Received :
                         Range(result.value[n].rows) = StoredRows(n)

\* from_writer on a closed CSVWriter of which one table received rows while
\* the other tables of the same analysis were left with their header only
C28_Witness ==
    /\ ClosedAfterInit
    /\ writer.kind = "CSVWriter"
    /\ Returns("from_writer")
    /\ Received = {"absa_normalized_texts"}
    /\ result.value.has_absa /\ ~result.value.has_concepts

----------------------------------------------------------------------------
(* client.optimal_requests *)

MaxTextLen == 2       \* characters of one text
MaxData == 3          \* texts handed to optimal_requests

\* the characters of the texts: a letter and the Chinese character U+4E2D,
\* written "zh"
TextChars == {"a", "zh"}

\* json.dumps of one character of a string (ensure_ascii)
JsonChar(c) ==
    CASE c = "\"" -> <<"\\", "\"">>
      [] c = "zh" -> <<"\\", "u", "4", "e", "2", "d">>
      [] OTHER -> <<c>>

\* json.dumps(text) for a string
JsonString(text) ==
    <<"\"">> \o Chain([i \in 1..Len(text) |-> JsonChar(text[i])]) \o <<"\"">>

\* ', '.join(items)
RECURSIVE JoinComma(_)
JoinComma(items) ==
    IF items = <<>> THEN <<>>
    ELSE IF Len(items) = 1 THEN items[1]
    ELSE items[1] \o <<",", " ">> \o JoinComma(Tail(items))

\* json.dumps of a list of strings
JsonList(strings) ==
    <<"[">> \o JoinComma([i \in 1..Len(strings) |-> JsonString(strings[i])])
            \o <<"]">>

\* the names of analyses, as strings
Str_concepts == <<"c", "o", "n", "c", "e", "p", "t", "s">>
Str_categories == <<"c", "a", "t", "e", "g", "o", "r", "i", "e", "s">>
Str_sentiment == <<"s", "e", "n", "t", "i", "m", "e", "n", "t">>
Str_absa == <<"a", "b", "s", "a">>
Str_topics == <<"t", "o", "p", "i", "c", "s">>

\* json.dumps({'text': texts, 'analyses': analyses})
JsonBody(texts, analyses) ==
    <<"{", "\"", "t", "e", "x", "t", "\"", ":", " ">> \o JsonList(texts)
        \o <<",", " ", "\"", "a", "n", "a", "l", "y", "s", "e", "s", "\"", ":", " ">> \o JsonList(analyses) \o <<"}">>

\* the length the loop has added for the texts of a list: len(new_string) + 1
\* each
CountedLength(texts) ==
    SumSeq([i \in 1..Len(texts) |-> Len(JsonString(texts[i])) + 1])

\* the for loop of optimal_requests from text number i on: yielded holds
\* the lists yielded so far, res the local variable result; length is
\* empty_length plus what was added for the texts of res
RECURSIVE RequestLoop(_, _, _, _, _, _)
RequestLoop(data, i, empty_length, max_size, yielded, res) ==
    IF i > Len(data)
    THEN IF res # <<>> THEN Append(yielded, res) ELSE yielded
    ELSE LET new_string == JsonString(data[i])
             length == empty_length + CountedLength(res)
             current_diff == max_size - length
         IN  IF current_diff < Len(new_string) + 1
             THEN RequestLoop(data, i + 1, empty_length, max_size,
                              Append(yielded, res), <<data[i]>>)
             ELSE RequestLoop(data, i + 1, empty_length, max_size,
                              yielded, Append(res, data[i]))

\* client.optimal_requests: the lists the generator yields, in order
optimal_requests(data, analyses, max_size) ==
    LET names == Unique(analyses)
        extra == Range(names) \ {Str_concepts, Str_categories, Str_sentiment, Str_absa}
        \* len(start) + len(stop) of the template with one text cut out
        empty_length == Len(JsonBody(<<>>, names))
    IN  IF extra # {}
        THEN ValueError("No support for analyses")
        ELSE Returned([lists |-> RequestLoop(data, 1, empty_length, max_size,
                                             <<>>, <<>>)])

\* the texts a caller sends
Texts == SeqsOf(TextChars, 0, MaxTextLen)

OptimalRequests ==
    \E data \in SeqsOf(Texts, 0, MaxData),
       analyses \in {<<Str_concepts>>, <<Str_absa, Str_categories, Str_sentiment>>,
                     <<Str_topics>>},
       max_size \in {44, 50, 70} :
        Query([op |-> "optimal_requests", data |-> data, analyses |-> analyses,
               max_size |-> max_size],
              optimal_requests(data, analyses, max_size))

InitRequests ==
    /\ loader = NoLoader
    /\ NoConcepts /\ NoAbsa /\ NoCategories /\ NoSentiments /\ NoQuery /\ NoApi

NextRequests ==
    \/ OptimalRequests
    \/ Release

SpecRequests == InitRequests /\ [][NextRequests]_vars

\* C25: optimal_requests never reorders or drops texts (the yielded lists
\* concatenated equal the input sequence), and every list it yields is
\* non-empty and fits the maximum request size: the JSON body made of that
\* text list and the analyses list is at most max_size long.
C25_RequestsFit ==
    Returns("optimal_requests") =>
        /\ Chain(result.value.lists) = call.data
        /\ \A k \in 1..Len(result.value.lists) :
              /\ result.value.lists[k] # <<>>
              /\ Len(JsonBody(result.value.lists[k], call.analyses)) <= call.max_size

\* the yielded lists concatenated equal the input sequence
C25_RequestsKeepOrder ==
    Returns("optimal_requests") => Chain(result.value.lists) = call.data

----------------------------------------------------------------------------
(* client._analysis: the retry loop *)

MaxRetries == 3       \* the largest max_retries argument (the default)

\* the subclasses of requests.RequestException a POST can raise, and the
\* responses it can return (an HTTP error status is a response)
RequestExceptions == {"ConnectionError", "Timeout"}
Responses == {200, 500}

\* one more attempt is made after the retries are used up
Exhausted_late(max_retries) == max_retries = -1

\* if max_retries == 0: raise
Exhausted(max_retries) == max_retries = 0

UnchangedByRequest ==
    UNCHANGED <<loader, concepts_ds, absa_ds, categories_ds, sentiment_ds,
                call, result, writer, analyzer>>

\* _analysis is called: given is the max_retries argument, max_retries the
\* local variable, caught the exceptions caught so far, posts the number of
\* POSTs made
StartAnalysis ==
    /\ request = NoRequest
    /\ \E max_retries \in 0..MaxRetries :
          request' = [pc |-> "post", given |-> max_retries,
                      max_retries |-> max_retries, posts |-> 0,
                      caught |-> <<>>, res |-> 0, raised |-> "none"]
    /\ UnchangedByRequest

\* requests.post returns a response
PostReturns ==
    /\ request.pc = "post"
    /\ \E res \in Responses :
          request' = [request EXCEPT !.pc = "returned", !.posts = @ + 1,
                                     !.res = res]
    /\ UnchangedByRequest

\* requests.post raises a RequestException: it is raised again when no retry
\* is left, else one retry is used up
PostRaises ==
    /\ request.pc = "post"
    /\ \E e \in RequestExceptions :
          request' =
              IF Exhausted(request.max_retries)
              THEN [request EXCEPT !.pc = "raised", !.posts = @ + 1,
                                   !.caught = Append(@, e), !.raised = e]
              ELSE [request EXCEPT !.pc = "sleep", !.posts = @ + 1,
                                   !.caught = Append(@, e),
                                   !.max_retries = @ - 1]
    /\ UnchangedByRequest

\* time.sleep(0.1) is over
Sleep ==
    /\ request.pc = "sleep"
    /\ request' = [request EXCEPT !.pc = "post"]
    /\ UnchangedByRequest

\* the caller of _analysis goes on
AnalysisDone ==
    /\ request.pc \in {"returned", "raised"}
    /\ request' = NoRequest
    /\ UnchangedByRequest

InitRetry ==
    /\ loader = NoLoader
    /\ NoConcepts /\ NoAbsa /\ NoCategories /\ NoSentiments /\ NoQuery /\ NoApi

NextRetry ==
    \/ StartAnalysis
    \/ PostReturns
    \/ PostRaises
    \/ Sleep
    \/ AnalysisDone

SpecRetry == InitRetry /\ [][NextRetry]_vars

\* every POST returns or raises, and every sleep ends
SpecRetryLive ==
    /\ InitRetry /\ [][NextRetry]_vars
    /\ WF_vars(PostReturns \/ PostRaises) /\ WF_vars(Sleep)

\* at most max_retries + 1 POSTs; the response returned is that of the first
\* POST that did not raise; the exception is raised again once POST number
\* max_retries + 1 has failed, and it is the exception of that POST
RetriesCapped ==
    request # NoRequest =>
        /\ request.posts <= request.given + 1
        /\ request.pc \in {"post", "sleep"} =>
              /\ Len(request.caught) = request.posts
              /\ request.posts <= request.given
        /\ request.pc = "returned" =>
              /\ Len(request.caught) = request.posts - 1
              /\ request.res \in Responses
        /\ request.pc = "raised" =>
              /\ request.posts = request.given + 1
              /\ Len(request.caught) = request.given + 1
              /\ request.raised = request.caught[request.posts]

\* C27: for max_retries >= 0 _analysis makes at most max_retries + 1
\* attempts (4 by default), returns the response of the first attempt that
\* does not raise, re-raises the request exception once attempt
\* max_retries + 1 has failed, and always terminates.
C27_RetriesCappedAndTerminates ==
    /\ []RetriesCapped
    /\ (request # NoRequest) ~> (request.pc \in {"returned", "raised"})

\* the default of three retries: the fourth POST fails and its exception is
\* raised
C27_Witness ==
    /\ request # NoRequest
    /\ request.given = 3
    /\ request.pc = "raised"
    /\ request.posts = 4
    /\ request.caught[1] # request.caught[4]

----------------------------------------------------------------------------
(* client.Analyzer: queueing, bulk analysis and flushing *)

MaxTasks == 3         \* scrape and analyze calls on one Analyzer
MaxBulkSize == 3      \* the largest bulk_size
MaxFailures == 1      \* bulks in which a client call raises

\* the call types of codes: SCRAPE and ANALYZE
CallTypes == {"scrape", "analyze"}

\* what the service answers to a task: the answer names the task
Response(task) == [task |-> task.id]

\* Analyzer.__init__; submitted lists the tasks queued so far, client_calls
\* counts for each of them the calls the client got, writer_calls lists the
\* calls the writer got, failures counts the bulks in which a call raised
NewAnalyzer(threads, bulk_size) ==
    [entered |-> FALSE, exited |-> FALSE,
     threads |-> threads, bulk_size |-> bulk_size,
     task_queue |-> <<>>, analyzed |-> <<>>, analyzed_types |-> <<>>,
     submitted |-> <<>>,
     client_calls |-> [i \in 1..MaxTasks |-> 0],
     writer_calls |-> <<>>,
     failures |-> 0]

\* the queue is flushed only when it is longer than bulk_size
should_start_analysis_late(self) == Len(self.task_queue) > self.bulk_size

\* Analyzer.should_start_analysis
should_start_analysis(self) == Len(self.task_queue) >= self.bulk_size

\* the tasks of the queue that reach the client when call number fail raises
\* (0: none raises): map stops at the first exception, the pool runs them all
Called(self, fail) ==
    IF fail = 0 \/ self.threads > 1 THEN self.task_queue
    ELSE SubSeq(self.task_queue, 1, fail)

\* the results of the calls made before the one that raised are kept
analyze_bulk_partial(self, fail) ==
    IF fail = 0
    THEN [self EXCEPT
             !.analyzed = @ \o [k \in 1..Len(self.task_queue) |->
                                   Response(self.task_queue[k])],
             !.analyzed_types = @ \o [k \in 1..Len(self.task_queue) |->
                                         self.task_queue[k].type],
             !.task_queue = <<>>]
    ELSE [self EXCEPT
             !.analyzed = @ \o [k \in 1..(fail - 1) |->
                                   Response(self.task_queue[k])],
             !.failures = @ + 1]

\* Analyzer.analyze_bulk; when a call raises the three lists stay as they
\* are
analyze_bulk(self, fail) ==
    LET called == {Called(self, fail)[k].id : k \in 1..Len(Called(self, fail))}
        counted == [self EXCEPT !.client_calls =
                       [i \in 1..MaxTasks |-> IF i \in called THEN @[i] + 1 ELSE @[i]]]
    IN  IF fail # 0
        THEN [counted EXCEPT !.failures = @ + 1]
        ELSE [counted EXCEPT
                 !.analyzed = @ \o [k \in 1..Len(self.task_queue) |->
                                       Response(self.task_queue[k])],
                 !.analyzed_types = @ \o [k \in 1..Len(self.task_queue) |->
                                             self.task_queue[k].type],
                 !.task_queue = <<>>]

\* zip(a, b)
Zip(a, b) ==
    [k \in 1..(IF Len(a) < Len(b) THEN Len(a) ELSE Len(b)) |-> <<a[k], b[k]>>]

\* Analyzer.flush_analysis_data: write_bulk hands every pair to write_row
flush_analysis_data(self) ==
    LET pairs == Zip(self.analyzed_types, self.analyzed)
    IN  [self EXCEPT
            !.writer_calls = @ \o [k \in 1..Len(pairs) |->
                                      [op |-> "write_row",
                                       call_type |-> pairs[k][1],
                                       call_result |-> pairs[k][2]]],
            !.analyzed_types = <<>>,
            !.analyzed = <<>>]

\* Analyzer.execute_tasks_and_store_output
execute_tasks_and_store_output(self, fail) ==
    IF fail # 0 THEN analyze_bulk(self, fail)
    ELSE flush_analysis_data(analyze_bulk(self, fail))

\* Analyzer.scrape and Analyzer.analyze: the task is queued, and the queue
\* executed when it is long enough
Submit(self, type, fail) ==
    LET task == [type |-> type, id |-> Len(self.submitted) + 1]
        queued == [self EXCEPT !.task_queue = Append(@, task),
                               !.submitted = Append(@, task)]
    IN  IF should_start_analysis(queued)
        THEN execute_tasks_and_store_output(queued, fail)
        ELSE queued

\* Analyzer.__enter__
Analyzer_enter(self) ==
    [self EXCEPT !.entered = TRUE,
                 !.writer_calls = Append(@, [op |-> "init"])]

\* Analyzer.__exit__: the writer is closed unless the bulk raised
Analyzer_exit(self, fail) ==
    LET done == execute_tasks_and_store_output(self, fail)
    IN  IF fail # 0 THEN [done EXCEPT !.exited = TRUE]
        ELSE [done EXCEPT !.exited = TRUE,
                          !.writer_calls = Append(@, [op |-> "close"])]

RequestException == [status |-> "RequestException", value |-> NoValue]

\* the outcomes of the client calls of a bulk over the queue: none raises,
\* or call number fail is the first that raises
Failures(self, queue) ==
    {0} \cup (IF self.failures < MaxFailures THEN 1..Len(queue) ELSE {})

\* a method of the Analyzer is called and returns None or lets the exception
\* of the client through
AnalyzerCall(c, new, fail) ==
    /\ call = NoCall
    /\ call' = c
    /\ analyzer' = new
    /\ result' = IF fail # 0 THEN RequestException ELSE Returned(NoValue)
    /\ UNCHANGED <<loader, concepts_ds, absa_ds, categories_ds, sentiment_ds,
                   writer, request>>

Enter ==
    /\ ~analyzer.entered
    /\ AnalyzerCall([op |-> "__enter__"], Analyzer_enter(analyzer), 0)

\* scrape(link) and analyze(texts, analyses) inside the with block
Scrape ==
    /\ analyzer.entered /\ ~analyzer.exited
    /\ Len(analyzer.submitted) < MaxTasks
    /\ \E fail \in Failures(analyzer, Append(analyzer.task_queue, 0)) :
          /\ fail # 0 => Len(analyzer.task_queue) + 1 >= analyzer.bulk_size
          /\ AnalyzerCall([op |-> "scrape", fail |-> fail],
                          Submit(analyzer, "scrape", fail), fail)

Analyze ==
    /\ analyzer.entered /\ ~analyzer.exited
    /\ Len(analyzer.submitted) < MaxTasks
    /\ \E fail \in Failures(analyzer, Append(analyzer.task_queue, 0)) :
          /\ fail # 0 => Len(analyzer.task_queue) + 1 >= analyzer.bulk_size
          /\ AnalyzerCall([op |-> "analyze", fail |-> fail],
                          Submit(analyzer, "analyze", fail), fail)

\* analyze_bulk() and flush_analysis_data() called by the user
AnalyzeBulk ==
    /\ analyzer.entered /\ ~analyzer.exited
    /\ \E fail \in Failures(analyzer, analyzer.task_queue) :
          AnalyzerCall([op |-> "analyze_bulk", fail |-> fail],
                       analyze_bulk(analyzer, fail), fail)

FlushAnalysisData ==
    /\ analyzer.entered /\ ~analyzer.exited
    /\ AnalyzerCall([op |-> "flush_analysis_data"],
                    flush_analysis_data(analyzer), 0)

\* the with block ends, normally or by an exception
Exit ==
    /\ analyzer.entered /\ ~analyzer.exited
    /\ \E fail \in Failures(analyzer, analyzer.task_queue) :
          AnalyzerCall([op |-> "__exit__", fail |-> fail],
                       Analyzer_exit(analyzer, fail), fail)

InitAnalyzer ==
    /\ \E threads \in 1..2, bulk_size \in 1..MaxBulkSize :
          analyzer = NewAnalyzer(threads, bulk_size)
    /\ writer = NoWriter /\ request = NoRequest
    /\ loader = NoLoader
    /\ NoConcepts /\ NoAbsa /\ NoCategories /\ NoSentiments /\ NoQuery

NextAnalyzer ==
    \/ Enter
    \/ Scrape
    \/ Analyze
    \/ AnalyzeBulk
    \/ FlushAnalysisData
    \/ Exit
    \/ Release

SpecAnalyzer == InitAnalyzer /\ [][NextAnalyzer]_vars

----------------------------------------------------------------------------
(* Analyzer: what reaches the client and the writer *)

\* the tasks executed by a bulk, and those of them already written
Executed == Len(analyzer.submitted) - Len(analyzer.task_queue)
Written == Executed - Len(analyzer.analyzed)

\* the write_row calls the writer got
WriteRows == SelectSeq(analyzer.writer_calls, LAMBDA e : e.op = "write_row")

\* tasks from .. to of the submitted ones, as the writer gets them
AsWritten(from, to) ==
    [k \in 1..(to - from + 1) |->
        [op |-> "write_row",
         call_type |-> analyzer.submitted[from + k - 1].type,
         call_result |-> Response(analyzer.submitted[from + k - 1])]]

\* C26: for an Analyzer with bulk_size >= 1 used as a context manager, while
\* every client call succeeds: every task queued by scrape or analyze is
\* sent to the client exactly once, its result reaches the writer paired
\* with its own call type and in submission order (also with threads > 1),
\* the queue is executed and flushed as soon as its length reaches
\* bulk_size, on exit the remaining tasks are executed and written before
\* writer.close() is called, and writer.init() precedes every write.
C26_BulkWritesInOrder ==
    (analyzer.entered /\ analyzer.failures = 0) =>
        /\ Executed >= 0 /\ Written >= 0
        /\ analyzer.task_queue =
              SubSeq(analyzer.submitted, Executed + 1, Len(analyzer.submitted))
        /\ \A i \in 1..MaxTasks :
              analyzer.client_calls[i] = IF i <= Executed THEN 1 ELSE 0
        /\ WriteRows = AsWritten(1, Written)
        /\ Zip(analyzer.analyzed_types, analyzer.analyzed) =
              [k \in 1..Len(analyzer.analyzed) |->
                  <<AsWritten(Written + 1, Executed)[k].call_type,
                    AsWritten(Written + 1, Executed)[k].call_result>>]
        /\ Len(analyzer.task_queue) < analyzer.bulk_size
        /\ (call.op \in {"scrape", "analyze"} /\ analyzer.task_queue = <<>>) =>
              Written = Len(analyzer.submitted)
        /\ analyzer.writer_calls[1].op = "init"
        /\ \A k \in 1..Len(analyzer.writer_calls) :
              analyzer.writer_calls[k].op = "close" =>
                  analyzer.exited /\ k = Len(analyzer.writer_calls)
        /\ analyzer.exited =>
              /\ analyzer.writer_calls[Len(analyzer.writer_calls)].op = "close"
              /\ Written = Len(analyzer.submitted)

\* three tasks of both types through a pool of two threads with bulk_size 2:
\* two were written by the flush of the second call, the third on exit
C26_Witness ==
    /\ analyzer.exited
    /\ analyzer.failures = 0
    /\ analyzer.threads = 2 /\ analyzer.bulk_size = 2
    /\ Len(analyzer.submitted) = 3
    /\ analyzer.submitted[1].type # analyzer.submitted[2].type
    /\ Len(WriteRows) = 3
    /\ Len(analyzer.writer_calls) = 5

\* a client call raised in the step
BulkRaised == call = NoCall /\ analyzer'.failures > analyzer.failures

\* C30: if a client call raises while analyze_bulk is running the bulk is
\* all-or-nothing: task_queue (with the task just queued), analyzed and
\* analyzed_types are as they were before the bulk started, nothing is
\* handed to the writer, and the exception propagates to the caller of
\* scrape, analyze, analyze_bulk or __exit__; in every reachable state
\* analyzed and analyzed_types have the same length.
C30_BulkAllOrNothing ==
    /\ [](analyzer.entered =>
             Len(analyzer.analyzed) = Len(analyzer.analyzed_types))
    /\ [][BulkRaised =>
             /\ result' = RequestException
             /\ analyzer'.task_queue =
                   IF call'.op \in {"scrape", "analyze"}
                   THEN Append(analyzer.task_queue,
                               [type |-> call'.op,
                                id |-> Len(analyzer.submitted) + 1])
                   ELSE analyzer.task_queue
             /\ analyzer'.analyzed = analyzer.analyzed
             /\ analyzer'.analyzed_types = analyzer.analyzed_types
             /\ analyzer'.writer_calls = analyzer.writer_calls]_vars

\* the second of two queued tasks raised in a sequential bulk started by
\* analyze while results of an earlier bulk were waiting to be written
C30_Witness ==
    /\ call.op = "analyze"
    /\ result = RequestException
    /\ call.fail = 2
    /\ analyzer.threads = 1
    /\ Len(analyzer.task_queue) = 2
    /\ analyzer.client_calls[2] = 1 /\ analyzer.client_calls[3] = 1
    /\ Len(analyzer.analyzed) = 1
    /\ WriteRows = <<>>

====
